---- MODULE Spec2Model ----
(***************************************************************************)
(* A model of scooch: the merge engine (generic.py), the configuration     *)
(* document and its macro evaluator (config.py), the polymorphism resolver *)
(* and construction engine (configurable_factory.py) and the default /     *)
(* validation pass (configurable.py).                                      *)
(*                                                                         *)
(* Python objects live in a heap: dicts and lists are mutable and shared   *)
(* by reference, which is what the frame and aliasing properties are       *)
(* about.  A value is either a scalar or a reference to a heap object.     *)
(***************************************************************************)
EXTENDS Integers, Sequences, FiniteSets, TLC

VARIABLES
    heap,       \* the Python heap: a sequence of objects, addressed 1..Len(heap)
    heap0,      \* the heap as it was before the operation under study ran
    hashOrder,  \* the order in which a set of keys is iterated (string hashing)
    pc,         \* position of the scenario
    err,        \* the exception the operation raised, "" when it returned
    dict1,      \* merge_dicts: the first argument (a value)
    override,   \* merge_dicts: the second argument (a value)
    merged,     \* merge_dicts: the returned value
    config_file,    \* Config(config_file, custom_params) of each load: the source
    custom_params,  \* ... and the ad-hoc parameters
    config_obj, \* the Config object of each load (None before it exists)
    cpc,        \* the position of each load in Config.__init__
    cerr,       \* the exception a load raised, "" when none
    json,       \* Config.json of each loaded document
    hashid,     \* Config.hashid of each loaded document
    eframes,    \* the calls of _evaluate_vars of each load that have not returned
    registry,   \* the Configurable classes defined, in the order of definition
    kpc,        \* position of the construction scenario
    ktype,      \* the type (a class, a ConfigList, a ConfigCollection) it is about
    kdoc,       \* the configuration it is about (a value)
    kclass,     \* the class get_class returned
    kobj,       \* the value construct returned
    kwrite,     \* the attribute assignment made on it: the name and the value
    kerr        \* the exception the last operation raised, "" when it returned

mergeVars == <<pc, err, dict1, override, merged>>
configVars == <<config_file, custom_params, config_obj, cpc, cerr, json, hashid, eframes>>
configurableVars == <<registry, kpc, ktype, kdoc, kclass, kobj, kwrite, kerr>>
vars == <<heap, heap0, hashOrder, mergeVars, configVars, configurableVars>>

----------------------------------------------------------------------------
(* Bounds of the model.                                                    *)

MaxBaseNodes == 4       \* nodes (mappings, sequences, scalars) of a base tree
MaxOverrideNodes == 3   \* nodes of an override tree
MaxListLen == 2         \* elements of a sequence in an input tree
MaxContentDepth == 6    \* depth to which the content of a value is compared
MaxHashNodes == 4       \* nodes of a source tree whose hash is taken
MaxMacroNodes == 5      \* nodes of a source tree whose macros are evaluated
MaxMacroListLen == 1    \* elements of a sequence in such a tree
MaxElements == 3        \* blocks in a list or a collection that is constructed
MaxCustomNodes == 4     \* nodes of a source tree loaded with custom parameters
MaxSharedNodes == 4     \* nodes of a source tree two documents are loaded from

----------------------------------------------------------------------------
(* Python values.  A string is a sequence of tokens: literal text, or a    *)
(* ${name} marker.  t is the Python type; a is the number of an int or the *)
(* address of a referenced object.                                         *)

Tok(m, x) == [m |-> m, x |-> x]
VStr(toks) == [t |-> "str", s |-> toks, a |-> 0]
VInt(n) == [t |-> "int", s |-> <<>>, a |-> n]
VNone == [t |-> "none", s |-> <<>>, a |-> 0]
VRef(a) == [t |-> "ref", s |-> <<>>, a |-> a]
Lit(x) == VStr(<<Tok(FALSE, x)>>)
Macro(x) == VStr(<<Tok(TRUE, x)>>)

(* A heap object: a dict (kind "dict"; "Config" for the dict subclass), a  *)
(* list, or a Configurable.  A dict keeps its keys in insertion order.     *)
Obj(kind, ks, vs) == [kind |-> kind, cls |-> "", ks |-> ks, vs |-> vs, aux |-> VNone]

IsDict(h, v) == v.t = "ref" /\ h[v.a].kind \in {"dict", "Config"}
IsList(h, v) == v.t = "ref" /\ h[v.a].kind = "list"

KeyPos(o, k) ==
    IF \E i \in 1..Len(o.ks) : o.ks[i] = k
    THEN CHOOSE i \in 1..Len(o.ks) : o.ks[i] = k
    ELSE 0
DictHas(o, k) == KeyPos(o, k) # 0
DictGet(o, k) == o.vs[KeyPos(o, k)]
DictSet(o, k, v) ==
    IF DictHas(o, k)
    THEN [o EXCEPT !.vs[KeyPos(o, k)] = v]
    ELSE [o EXCEPT !.ks = Append(@, k), !.vs = Append(@, v)]
DropAt(s, i) == SubSeq(s, 1, i - 1) \o SubSeq(s, i + 1, Len(s))
DictDel(o, k) ==
    [o EXCEPT !.ks = DropAt(@, KeyPos(o, k)), !.vs = DropAt(@, KeyPos(o, k))]
KeySet(o) == {o.ks[i] : i \in 1..Len(o.ks)}

(* Keys.  A key written "#n" is the Python int n; every other key is a str. *)
(* The str keys that occur, in the order str compares them.               *)
StrKeys ==
    <<"A", "Amplifier", "Augmenter", "B", "Batcher", "BoostAmplifier", "Constants",
      "DCOffsetAugmenter", "GatedNoiseAugmenter", "Mixer",
      "NoiseAugmenter", "PARENT", "Rack", "Relay", "Stage", "a", "audio_samples_per_smaple",
      "augmentations_per_sample", "augmenter", "b", "bank",
      "batch_size", "c", "chain", "datetime", "double_gain", "gain", "grid", "inherit",
      "next", "noise_max", "noise_min", "offset_variance", "rate", "x", "y">>
IntKeys == <<"#-1", "#0", "#1", "#2", "#3">>
KeyIsInt(k) == \E i \in 1..Len(IntKeys) : IntKeys[i] = k
KeyInt(k) == (CHOOSE i \in 1..Len(IntKeys) : IntKeys[i] = k) - 2
IdxKey(i) == IntKeys[i + 2]
AllKeys == IntKeys \o StrKeys
Reverse(s) == [i \in 1..Len(s) |-> s[Len(s) + 1 - i]]
(* Iterating a set of keys: the members in the order hashOrder gives them.  *)
SetIter(S) == SelectSeq(hashOrder, LAMBDA k : k \in S)

----------------------------------------------------------------------------
(* The content of a value: the tree below it, as a function from paths to  *)
(* labels.  Two values are equal in Python (==) when their contents are:   *)
(* the order of a dict's keys and the identity of objects do not count.    *)

DictLabel == [t |-> "dict", s |-> <<>>, a |-> 0]
ListLabel == [t |-> "list", s |-> <<>>, a |-> 0]
DeepLabel == [t |-> "deep", s |-> <<>>, a |-> 0]
Shift(k, c) == [p \in {<<k>> \o q : q \in DOMAIN c} |-> c[Tail(p)]]

RECURSIVE Content(_, _, _), ContentKids(_, _, _, _)
Content(h, v, fuel) ==
    IF v.t # "ref" THEN (<<>> :> v)
    ELSE IF fuel = 0 THEN (<<>> :> DeepLabel)
    ELSE (<<>> :> (IF h[v.a].kind = "list" THEN ListLabel ELSE DictLabel))
         @@ ContentKids(h, h[v.a], 1, fuel)
ContentKids(h, o, i, fuel) ==
    IF i > Len(o.vs) THEN <<>>
    ELSE Shift(IF o.kind = "list" THEN IdxKey(i - 1) ELSE o.ks[i],
               Content(h, o.vs[i], fuel - 1))
         @@ ContentKids(h, o, i + 1, fuel)
ContentOf(h, v) == Content(h, v, MaxContentDepth)

----------------------------------------------------------------------------
(* Input trees, as contents: every tree of exactly n nodes whose mappings  *)
(* take their keys from keys, whose scalars are in leaves and whose         *)
(* sequences have at most maxlen elements.                                 *)

RECURSIVE Trees(_, _, _, _), DictBodies(_, _, _, _, _), ListBodies(_, _, _, _, _, _)
Trees(n, keys, leaves, maxlen) ==
    IF n = 1
    THEN {(<<>> :> l) : l \in leaves} \cup {(<<>> :> DictLabel), (<<>> :> ListLabel)}
    ELSE {(<<>> :> DictLabel) @@ b : b \in DictBodies(1, n - 1, keys, leaves, maxlen)}
         \cup UNION {{(<<>> :> ListLabel) @@ b :
                          b \in ListBodies(0, len, n - 1, keys, leaves, maxlen)}
                     : len \in 1..maxlen}
DictBodies(i, m, keys, leaves, maxlen) ==
    IF i > Len(keys) THEN (IF m = 0 THEN {<<>>} ELSE {})
    ELSE DictBodies(i + 1, m, keys, leaves, maxlen)
         \cup UNION {{Shift(keys[i], c) @@ rest :
                          c \in Trees(j, keys, leaves, maxlen),
                          rest \in DictBodies(i + 1, m - j, keys, leaves, maxlen)}
                     : j \in 1..m}
ListBodies(idx, len, m, keys, leaves, maxlen) ==
    IF idx = len THEN (IF m = 0 THEN {<<>>} ELSE {})
    ELSE UNION {{Shift(IdxKey(idx), c) @@ rest :
                     c \in Trees(j, keys, leaves, maxlen),
                     rest \in ListBodies(idx + 1, len, m - j, keys, leaves, maxlen)}
                : j \in 1..m}
TreesUpTo(n, keys, leaves, maxlen) == UNION {Trees(j, keys, leaves, maxlen) : j \in 1..n}
DictTreesUpTo(n, keys, leaves, maxlen) ==
    {t \in TreesUpTo(n, keys, leaves, maxlen) : t[<<>>].t = "dict"}

(* Building a tree in the heap; a dict's keys are inserted in the order ord. *)
ChildKeys(t, p) ==
    {q[Len(p) + 1] : q \in {q \in DOMAIN t : Len(q) = Len(p) + 1 /\ SubSeq(q, 1, Len(p)) = p}}
Res(h, v, e) == [h |-> h, v |-> v, e |-> e]

(* The statements that follow an assignment, with the value assigned: the  *)
(* value is computed before they run.                                      *)
With(value, Rest(_)) == CASE value = value -> Rest(value)
(* The members of a set of keys, in the order a sequence gives them.       *)
InOrder(ord, S) == SelectSeq(ord, LAMBDA k : k \in S)
RECURSIVE AllocTree(_, _, _, _), AllocKids(_, _, _, _, _, _, _)
AllocTree(h, t, p, ord) ==
    IF t[p].t \notin {"dict", "list"} THEN Res(h, t[p], "")
    ELSE AllocKids(h, t, p, ord, InOrder(IF t[p].t = "list" THEN IntKeys ELSE ord, ChildKeys(t, p)),
                   1, <<>>)
AllocKids(h, t, p, ord, ks, i, vs) ==
    IF i > Len(ks)
    THEN Res(Append(h, Obj(t[p].t, IF t[p].t = "list" THEN <<>> ELSE ks, vs)),
             VRef(Len(h) + 1), "")
    ELSE With(AllocTree(h, t, p \o <<ks[i]>>, ord), LAMBDA r :
              AllocKids(r.h, t, p, ord, ks, i + 1, Append(vs, r.v)))

----------------------------------------------------------------------------
(* generic.py: merge_lists and merge_dicts.                                *)

RECURSIVE merge_dicts(_, _, _), merge_dicts_items(_, _, _, _, _, _, _),
          merge_lists(_, _, _), merge_lists_items(_, _, _, _)

(* merge_lists(list1, override): list1 is a list; override is any value.   *)
merge_lists(h, list1, ov) ==
    IF IsList(h, ov) THEN Res(h, ov, "")
    ELSE IF IsDict(h, ov) /\ \A i \in 1..Len(h[ov.a].ks) : KeyIsInt(h[ov.a].ks[i])
    THEN merge_lists_items(h, list1, ov.a, 1)
    ELSE Res(h, ov, "")

(* The loop over override.items(): list1 is assigned in place.             *)
merge_lists_items(h, list1, ov, i) ==
    IF i > Len(h[ov].ks) THEN Res(h, VRef(list1), "")
    ELSE LET idx == KeyInt(h[ov].ks[i])
             value == h[ov].vs[i]
             n == Len(h[list1].vs)
         IN IF idx >= n THEN Res(h, VNone, "ValueError: index out of range")
            ELSE IF idx < 0 - n THEN Res(h, VNone, "IndexError")
            ELSE LET pos == IF idx >= 0 THEN idx + 1 ELSE n + idx + 1
                     cur == h[list1].vs[pos]
                 IN With(IF IsDict(h, cur) /\ IsDict(h, value)
                         THEN merge_dicts(h, cur.a, value.a)
                         ELSE IF IsList(h, cur) /\ IsDict(h, value)
                         THEN merge_lists(h, cur.a, value)
                         ELSE Res(h, value, ""), LAMBDA r :
                         IF r.e # "" THEN r
                         ELSE merge_lists_items([r.h EXCEPT ![list1].vs[pos] = r.v],
                                                list1, ov, i + 1))

(* One pass of the loop of merge_dicts: the value yielded for key k.        *)
merge_dicts_item_dropbase(h, d1, ov, k) ==
    IF DictHas(h[d1], k) /\ DictHas(h[ov], k)
    THEN Res(h, DictGet(h[ov], k), "")
    ELSE IF DictHas(h[d1], k) THEN Res(h, VNone, "")
    ELSE Res(h, DictGet(h[ov], k), "")

merge_dicts_item(h, d1, ov, k) ==
    IF DictHas(h[d1], k) /\ DictHas(h[ov], k)
    THEN LET x == DictGet(h[d1], k)
             y == DictGet(h[ov], k)
         IN IF IsDict(h, x) /\ IsDict(h, y) THEN merge_dicts(h, x.a, y.a)
            ELSE IF IsList(h, x) THEN merge_lists(h, x.a, y)
            ELSE Res(h, y, "")
    ELSE IF DictHas(h[d1], k) THEN Res(h, DictGet(h[d1], k), "")
    ELSE Res(h, DictGet(h[ov], k), "")

(* dict(merge_dicts(dict1, override)): a new dict of the yielded pairs, the *)
(* keys taken in the iteration order of set(dict1) | set(override).        *)
merge_dicts(h, d1, ov) ==
    merge_dicts_items(h, d1, ov, SetIter(KeySet(h[d1]) \cup KeySet(h[ov])), 1, <<>>, <<>>)

merge_dicts_items(h, d1, ov, keys, i, ks, vs) ==
    IF i > Len(keys) THEN Res(Append(h, Obj("dict", ks, vs)), VRef(Len(h) + 1), "")
    ELSE With(merge_dicts_item(h, d1, ov, keys[i]), LAMBDA r :
              IF r.e # "" THEN r
              ELSE merge_dicts_items(r.h, d1, ov, keys, i + 1,
                                     Append(ks, keys[i]), Append(vs, r.v)))

----------------------------------------------------------------------------
(* config.py: the macro functions and the macro evaluator.                 *)

CONSTANTS_KEY == "Constants"
CURRENT_DATETIME == "20261102_120000"

HasMarker(toks) == \E i \in 1..Len(toks) : toks[i].m
(* re.findall(r'\$\{(.*?)\}', value)[0]                                     *)
FirstMarker(toks) == toks[CHOOSE i \in 1..Len(toks) : toks[i].m /\ \A j \in 1..(i - 1) : ~toks[j].m].x

(* Adjacent pieces of literal text are one piece of text.                  *)
RECURSIVE JoinText(_)
JoinText(toks) ==
    IF Len(toks) < 2 THEN toks
    ELSE IF ~toks[1].m /\ ~toks[2].m
    THEN JoinText(<<Tok(FALSE, toks[1].x \o toks[2].x)>> \o SubSeq(toks, 3, Len(toks)))
    ELSE <<toks[1]>> \o JoinText(Tail(toks))

(* Config._datetime: value.replace('${datetime}', CURRENT_DATETIME)        *)
datetime(value) ==
    VStr(JoinText([i \in 1..Len(value.s) |->
                      IF value.s[i].m /\ value.s[i].x = "datetime"
                      THEN Tok(FALSE, CURRENT_DATETIME) ELSE value.s[i]]))

(* Config._inherit_recurse: the value at key term of the nearest mapping,  *)
(* from heirarchy upward along the PARENT entries, that has the key.       *)
RECURSIVE inherit_recurse(_, _, _, _)
inherit_recurse_noreturn(h, heirarchy, term, visited) ==
    IF DictHas(h[heirarchy], term) THEN Res(h, DictGet(h[heirarchy], term), "")
    ELSE IF DictHas(h[heirarchy], "PARENT")
    THEN LET up == DictGet(h[heirarchy], "PARENT").a
         IN IF up \in visited THEN Res(h, VNone, "RecursionError")
            ELSE LET r == inherit_recurse(h, up, term, visited \cup {heirarchy})
                 IN Res(h, VNone, r.e)
    ELSE Res(h, VNone, "KeyError: no inheritable attribute")

inherit_recurse(h, heirarchy, term, visited) ==
    IF DictHas(h[heirarchy], term) THEN Res(h, DictGet(h[heirarchy], term), "")
    ELSE IF DictHas(h[heirarchy], "PARENT")
    THEN LET up == DictGet(h[heirarchy], "PARENT").a
         IN IF up \in visited THEN Res(h, VNone, "RecursionError")
            ELSE inherit_recurse(h, up, term, visited \cup {heirarchy})
    ELSE Res(h, VNone, "KeyError: no inheritable attribute")

(* Config._inherit                                                         *)
inherit(h, heirarchy, term) ==
    IF ~DictHas(h[heirarchy], "PARENT")
    THEN Res(h, VNone, "KeyError: no inheritable attribute")
    ELSE inherit_recurse(h, DictGet(h[heirarchy], "PARENT").a, term, {})

(* Config._evaluate_macro: the while loop.  The loop reads the same heap   *)
(* on every pass, so a value that comes back is a loop that never ends:    *)
(* that outcome is reported as "hang".                                     *)
RECURSIVE evaluate_macro_loop(_, _, _, _, _, _)
evaluate_macro_loop(h, vrs, heirarchy, term, value, seen) ==
    IF ~(value.t = "str" /\ HasMarker(value.s)) THEN Res(h, value, "")
    ELSE IF value \in seen THEN Res(h, value, "hang")
    ELSE LET func_name == FirstMarker(value.s)
         IN IF DictHas(h[vrs], func_name) THEN Res(h, DictGet(h[vrs], func_name), "")
            ELSE IF func_name = "inherit"
            THEN With(inherit(h, heirarchy, term), LAMBDA r :
                      IF r.e # "" THEN r
                      ELSE evaluate_macro_loop(h, vrs, heirarchy, term, r.v, seen \cup {value}))
            ELSE IF func_name = "datetime"
            THEN evaluate_macro_loop(h, vrs, heirarchy, term, datetime(value), seen \cup {value})
            ELSE Res(h, VNone, "KeyError: no appropriate function")

evaluate_macro(h, vrs, heirarchy, term, value) ==
    evaluate_macro_loop(h, vrs, heirarchy, term, value, {})

SetItem(h, a, k, v) == [h EXCEPT ![a] = DictSet(@, k, v)]
SetIndex(h, a, i, v) == [h EXCEPT ![a].vs[i] = v]

(* Config._evaluate_vars.  stack holds the mappings whose evaluation has   *)
(* not returned: entering one of them again is a recursion without end,    *)
(* which Python ends with RecursionError.                                  *)
RECURSIVE evaluate_vars(_, _, _, _), evaluate_vars_keys(_, _, _, _, _, _),
          evaluate_vars_list(_, _, _, _, _, _, _)
evaluate_vars(h, vrs, parent, stack) ==
    evaluate_vars_keys(h, vrs, parent, stack, h[parent].ks, 1)

evaluate_vars_keys(h, vrs, parent, stack, initial_keys, i) ==
    IF i > Len(initial_keys)
    THEN Res(IF DictHas(h[parent], "PARENT")
             THEN [h EXCEPT ![parent] = DictDel(@, "PARENT")] ELSE h, VNone, "")
    ELSE LET child_key == initial_keys[i]
         IN IF child_key = "PARENT"
            THEN evaluate_vars_keys(h, vrs, parent, stack, initial_keys, i + 1)
            ELSE LET child_var == DictGet(h[parent], child_key)
                 IN With(IF IsDict(h, child_var)
                         THEN IF child_var.a \in stack \cup {parent}
                              THEN Res(SetItem(h, child_var.a, "PARENT", VRef(parent)),
                                       VNone, "RecursionError")
                              ELSE evaluate_vars(SetItem(h, child_var.a, "PARENT", VRef(parent)),
                                                 vrs, child_var.a, stack \cup {parent})
                         ELSE IF IsList(h, child_var)
                         THEN evaluate_vars_list(h, vrs, parent, stack, child_key, child_var.a, 1)
                         ELSE IF child_var.t = "str"
                         THEN With(evaluate_macro(h, vrs, parent, child_key, child_var), LAMBDA m :
                                   IF m.e # "" THEN m
                                   ELSE Res(SetItem(h, parent, child_key, m.v), VNone, ""))
                         ELSE Res(h, VNone, ""), LAMBDA r :
                         IF r.e # "" THEN r
                         ELSE evaluate_vars_keys(r.h, vrs, parent, stack, initial_keys, i + 1))

(* The loop over a list: each element has the key and the parent of the list. *)
evaluate_vars_list(h, vrs, parent, stack, child_key, child_var, idx) ==
    IF idx > Len(h[child_var].vs) THEN Res(h, VNone, "")
    ELSE LET sub_var == h[child_var].vs[idx]
         IN With(IF IsDict(h, sub_var)
                 THEN IF sub_var.a \in stack \cup {parent}
                      THEN Res(SetItem(h, sub_var.a, "PARENT", VRef(parent)),
                               VNone, "RecursionError")
                      ELSE evaluate_vars(SetItem(h, sub_var.a, "PARENT", VRef(parent)),
                                         vrs, sub_var.a, stack \cup {parent})
                 ELSE IF sub_var.t = "str"
                 THEN With(evaluate_macro(h, vrs, parent, child_key, sub_var), LAMBDA m :
                           IF m.e # "" THEN m
                           ELSE Res(SetIndex(h, child_var, idx, m.v), VNone, ""))
                 ELSE Res(h, VNone, ""), LAMBDA r :
                 IF r.e # "" THEN r
                 ELSE evaluate_vars_list(r.h, vrs, parent, stack, child_key, child_var, idx + 1))

----------------------------------------------------------------------------
(* config.py: the Config document.                                         *)

(* dict.update(other): other's items, in other's order, set in target.     *)
RECURSIVE dict_update_from(_, _, _, _)
dict_update_from(h, target, other, i) ==
    IF i > Len(h[other].ks) THEN h
    ELSE dict_update_from(SetItem(h, target, h[other].ks[i], h[other].vs[i]), target, other, i + 1)
dict_update(h, target, other) == dict_update_from(h, target, other, 1)

(* Config.override: config_dict.update(dict(merge_dicts(config_dict, custom_params))) *)
Config_override(h, config_dict, params) ==
    With(merge_dicts(h, config_dict, params), LAMBDA r :
         IF r.e # "" THEN r ELSE Res(dict_update(r.h, config_dict, r.v.a), VNone, ""))

(* len(x) of a value; a value without a length has none (-1).              *)
PyLen(h, v) ==
    IF v.t = "ref" THEN Len(h[v.a].vs)
    ELSE IF v.t = "str" THEN Len(v.s)
    ELSE 0 - 1

(* Config.__init__, lines 58-65: a new Config holding the source's items.  *)
Config_load(h, source) ==
    LET a == Len(h) + 1
    IN Res(dict_update(Append(h, Obj("Config", <<>>, <<>>)), a, source.a), VRef(a), "")

(* Config.__init__, lines 67-73: the constants table, taken out of the     *)
(* document when it is not empty.                                          *)
Config_vars(h, self, source) ==
    IF h[source.a].kind = "Config"
    THEN Res([h EXCEPT ![self].aux = h[source.a].aux], VNone, "")
    ELSE IF DictHas(h[self], CONSTANTS_KEY)
    THEN LET v == DictGet(h[self], CONSTANTS_KEY)
             h1 == [h EXCEPT ![self].aux = v]
         IN IF PyLen(h, v) < 0 THEN Res(h1, VNone, "TypeError: no len()")
            ELSE IF PyLen(h, v) > 0
            THEN Res([h1 EXCEPT ![self] = DictDel(@, CONSTANTS_KEY)], VNone, "")
            ELSE Res(h1, VNone, "")
    ELSE Res([Append(h, Obj("dict", <<>>, <<>>)) EXCEPT ![self].aux = VRef(Len(h) + 1)],
             VNone, "")

(* Config.__init__, lines 80-82: the custom constants are merged into the  *)
(* constants table and taken out of the custom parameters.                 *)
Config_constants(h, self, params) ==
    LET given == DictHas(h[params], CONSTANTS_KEY)
        h1 == IF given THEN h ELSE Append(h, Obj("dict", <<>>, <<>>))
        cc == IF given THEN DictGet(h[params], CONSTANTS_KEY) ELSE VRef(Len(h) + 1)
    IN IF ~IsDict(h1, h1[self].aux) \/ ~IsDict(h1, cc)
       THEN Res(h1, VNone, "AttributeError: keys")
       ELSE With(Config_override(h1, h1[self].aux.a, cc.a), LAMBDA r :
                 IF r.e # "" THEN r
                 ELSE Res(IF given THEN [r.h EXCEPT ![params] = DictDel(@, CONSTANTS_KEY)]
                          ELSE r.h, VNone, ""))

(* Config.__init__(config_file, custom_params): the source is a mapping    *)
(* (a dict or a Config); a file name or a stream is read by the YAML       *)
(* loader, which is outside the model and fails here.  The new object is   *)
(* loaded (lines 58-65), its constants table stored (67-73) and extended   *)
(* (80-82); the macros are evaluated, the custom parameters applied, and   *)
(* the macros evaluated again (84-91).                                     *)
Config_init(h, source, params) ==
    IF ~IsDict(h, source) THEN Res(h, VNone, "OSError: source is not a mapping")
    ELSE With(Config_load(h, source), LAMBDA new :
         With(Config_vars(new.h, new.v.a, source), LAMBDA stored :
         IF stored.e # "" THEN Res(stored.h, new.v, stored.e)
         ELSE With(Config_constants(stored.h, new.v.a, params), LAMBDA c :
         IF c.e # "" THEN Res(c.h, new.v, c.e)
         ELSE With(evaluate_vars(c.h, c.h[new.v.a].aux.a, new.v.a, {}), LAMBDA first :
         IF first.e # "" THEN Res(first.h, new.v, first.e)
         ELSE With(Config_override(first.h, new.v.a, params), LAMBDA o :
         IF o.e # "" THEN Res(o.h, new.v, o.e)
         ELSE With(evaluate_vars(o.h, c.h[new.v.a].aux.a, new.v.a, {}), LAMBDA second :
              Res(second.h, new.v, second.e)))))))

(* Config.json: json.dumps(self, sort_keys=True).  The keys of a dict are  *)
(* sorted; str and int keys in one dict do not compare.                    *)
InsertionKeys(o) == o.ks
SortedKeys(o) == SelectSeq(AllKeys, LAMBDA k : k \in KeySet(o))
MixedKeys(o) == (\E k \in KeySet(o) : KeyIsInt(k)) /\ (\E k \in KeySet(o) : ~KeyIsInt(k))
KeyText(k) == IF KeyIsInt(k) THEN ToString(KeyInt(k)) ELSE k
RECURSIVE TokText(_)
TokText(toks) ==
    IF toks = <<>> THEN ""
    ELSE (IF toks[1].m THEN "${" \o toks[1].x \o "}" ELSE toks[1].x) \o TokText(Tail(toks))
JRes(s, e) == [s |-> s, e |-> e]
RECURSIVE dumps(_, _, _), dumps_items(_, _, _, _, _), dumps_elems(_, _, _, _)
dumps(h, v, stack) ==
    IF v.t = "int" THEN JRes(ToString(v.a), "")
    ELSE IF v.t = "none" THEN JRes("null", "")
    ELSE IF v.t = "str" THEN JRes("\"" \o TokText(v.s) \o "\"", "")
    ELSE IF v.a \in stack THEN JRes("", "ValueError: Circular reference detected")
    ELSE IF h[v.a].kind = "list"
    THEN With(dumps_elems(h, v.a, 1, stack \cup {v.a}), LAMBDA r :
              IF r.e # "" THEN r ELSE JRes("[" \o r.s \o "]", ""))
    ELSE IF MixedKeys(h[v.a]) THEN JRes("", "TypeError: '<' not supported")
    ELSE With(dumps_items(h, v.a, SortedKeys(h[v.a]), 1, stack \cup {v.a}), LAMBDA r :
              IF r.e # "" THEN r ELSE JRes("{" \o r.s \o "}", ""))
dumps_items(h, a, keys, i, stack) ==
    IF i > Len(keys) THEN JRes("", "")
    ELSE With(dumps(h, DictGet(h[a], keys[i]), stack), LAMBDA r :
              IF r.e # "" THEN r
              ELSE With(dumps_items(h, a, keys, i + 1, stack), LAMBDA rest :
                        IF rest.e # "" THEN rest
                        ELSE JRes("\"" \o KeyText(keys[i]) \o "\": " \o r.s
                                  \o (IF i < Len(keys) THEN ", " ELSE "") \o rest.s, "")))
dumps_elems(h, a, i, stack) ==
    IF i > Len(h[a].vs) THEN JRes("", "")
    ELSE With(dumps(h, h[a].vs[i], stack), LAMBDA r :
              IF r.e # "" THEN r
              ELSE With(dumps_elems(h, a, i + 1, stack), LAMBDA rest :
                        IF rest.e # "" THEN rest
                        ELSE JRes(r.s \o (IF i < Len(h[a].vs) THEN ", " ELSE "") \o rest.s, "")))
Config_json(h, self) == dumps(h, VRef(self), {})

(* Config.hashid: the hex digest of the serialization.  SHA-256 is taken   *)
(* as injective: the digest is the text it digests, tagged.                *)
sha256(text) == "sha256:" \o text

----------------------------------------------------------------------------
(* param.py, config_list.py, config_collection.py: the declaration of a    *)
(* field and the type it is declared with.                                 *)

(* The type of a field: a plain Python type, a Configurable class, or a    *)
(* ConfigList / ConfigCollection of a subtype.                             *)
PyType(n) == [k |-> "type", name |-> n, sub |-> <<>>]
Class(n) == [k |-> "class", name |-> n, sub |-> <<>>]
ConfigList(subtype) == [k |-> "ConfigList", name |-> "", sub |-> <<subtype>>]
ConfigCollection(subtype) == [k |-> "ConfigCollection", name |-> "", sub |-> <<subtype>>]

(* ParamDefaults.NO_DEFAULT, and a default given as a literal.             *)
NO_DEFAULT == [t |-> "NO_DEFAULT", s |-> <<>>, a |-> 0]
Leaf(v) == (<<>> :> v)

(* A class attribute: its name as written (underscores and identifier),    *)
(* the class of the descriptor object, and the descriptor's fields.        *)
Attribute(us, id, descriptor, type, default) ==
    [us |-> us, id |-> id, descriptor |-> descriptor, type |-> type, default |-> default,
     doc |-> "doc"]
(* The same declaration, given a doc string of its own.                    *)
Documented(attr, doc) == [attr EXCEPT !.doc = doc]
Param(us, id, type, default) == Attribute(us, id, "Param", type, default)
ConfigurableParam(us, id, type) == Attribute(us, id, "ConfigurableParam", type, Leaf(NO_DEFAULT))
(* attr_name.lstrip('_')                                                   *)
lstrip(attr) == attr.id
(* isinstance(value, Param): ConfigurableParam does not derive from Param. *)
IsParam(attr) == attr.descriptor \in {"Param", "AliasParam"}

ClassStatement(name, bases, attrs) == [name |-> name, bases |-> bases, attrs |-> attrs]

(* examples/batcher_example: the classes of the example.                   *)
Augmenter ==
    ClassStatement("Augmenter", <<"Configurable">>,
        <<Param("_", "augmentations_per_sample", PyType("int"), Leaf(VInt(3)))>>)
DCOffsetAugmenter ==
    ClassStatement("DCOffsetAugmenter", <<"Augmenter">>,
        <<Param("_", "offset_variance", PyType("float"), Leaf(VInt(1)))>>)
NoiseAugmenter ==
    ClassStatement("NoiseAugmenter", <<"Augmenter">>,
        <<Param("_", "noise_min", PyType("float"), Leaf(VInt(0 - 10))),
          Param("_", "noise_max", PyType("int"), Leaf(VInt(10)))>>)
Batcher ==
    ClassStatement("Batcher", <<"Configurable">>,
        <<Param("_", "batch_size", PyType("int"), Leaf(VInt(128))),
          Param("_", "audio_samples_per_smaple", PyType("int"), Leaf(VInt(1024))),
          ConfigurableParam("_", "augmenter", Class("Augmenter"))>>)

(* Two more classes, declared the way the library documents: a class two   *)
(* levels below Augmenter with a field that has no default, and a class    *)
(* with a simple field, a sub-component, a list and a collection.          *)
GatedNoiseAugmenter ==
    ClassStatement("GatedNoiseAugmenter", <<"NoiseAugmenter">>,
        <<Param("_", "gain", PyType("int"), Leaf(NO_DEFAULT))>>)
Mixer ==
    ClassStatement("Mixer", <<"Configurable">>,
        <<Param("_", "rate", PyType("int"), Leaf(NO_DEFAULT)),
          Param("_", "augmenter", Class("Augmenter"), Leaf(NO_DEFAULT)),
          Param("_", "chain", ConfigList(Class("Augmenter")), Leaf(VNone)),
          Param("_", "bank", ConfigCollection(Class("Augmenter")), Leaf(VNone))>>)

(* alias_param.py: a field derived from other fields by a transform        *)
(* function.  Its default is NO_DEFAULT whatever it is declared with        *)
(* (lines 63-65).                                                          *)
AliasParam(us, id, type, source_param_names, transform_function) ==
    [us |-> us, id |-> id, descriptor |-> "AliasParam", type |-> type,
     default |-> Leaf(NO_DEFAULT), doc |-> "doc",
     source_param_names |-> source_param_names, transform_function |-> transform_function]
(* The transform functions the classes use, applied to their arguments.    *)
Transform(f, args) == IF f = "twice" THEN VInt(2 * args[1].a) ELSE VNone

(* A class with a field and an alias derived from it, and a class derived  *)
(* from that one which declares nothing of its own.                        *)
Amplifier ==
    ClassStatement("Amplifier", <<"Configurable">>,
        <<Param("_", "gain", PyType("int"), Leaf(VInt(2))),
          AliasParam("_", "double_gain", PyType("int"), <<"gain">>, "twice")>>)
BoostAmplifier == ClassStatement("BoostAmplifier", <<"Amplifier">>, <<>>)

(* A class whose defaults are objects: a block for a sub-component and a   *)
(* mapping.  And a family, Stage, with a class whose sub-component is of   *)
(* the family and defaults to a block that names the class itself.         *)
Rack ==
    ClassStatement("Rack", <<"Configurable">>,
        <<Param("_", "augmenter", Class("Augmenter"),
                (<<>> :> DictLabel) @@ (<<"NoiseAugmenter">> :> DictLabel)
                    @@ (<<"NoiseAugmenter", "noise_min">> :> VInt(0 - 5))),
          Param("_", "grid", PyType("dict"), (<<>> :> DictLabel) @@ (<<"a">> :> VInt(1)))>>)
Stage == ClassStatement("Stage", <<"Configurable">>, <<>>)
Relay ==
    ClassStatement("Relay", <<"Stage">>,
        <<Param("_", "next", Class("Stage"),
                (<<>> :> DictLabel) @@ (<<"Relay">> :> DictLabel))>>)

(* The class statements, in the order they are executed.                   *)
ClassStatements ==
    <<ClassStatement("Configurable", <<>>, <<>>),
      Augmenter, DCOffsetAugmenter, NoiseAugmenter, Batcher, GatedNoiseAugmenter, Mixer>>

----------------------------------------------------------------------------
(* configurable_meta.py: ConfigurableMeta.__new__ builds the three schema  *)
(* mappings of a class.  __PARAMS__ and __CONFIGURABLES__ are ordered      *)
(* mappings of names; __PARAM_DEFAULTS__ is a dict in the heap, since the  *)
(* defaults it holds are objects the configuration blocks come to share.   *)

Item(name, val) == [name |-> name, val |-> val]
OdHas(d, n) == \E i \in 1..Len(d) : d[i].name = n
OdGet(d, n) == d[CHOOSE i \in 1..Len(d) : d[i].name = n].val
OdSet(d, n, v) ==
    IF OdHas(d, n) THEN [i \in 1..Len(d) |-> IF d[i].name = n THEN Item(n, v) ELSE d[i]]
    ELSE Append(d, Item(n, v))
OdKeys(d) == [i \in 1..Len(d) |-> d[i].name]
RECURSIVE OdUpdate(_, _, _)
OdUpdate(d, e, i) == IF i > Len(e) THEN d ELSE OdUpdate(OdSet(d, e[i].name, e[i].val), e, i + 1)

ClassOf(reg, name) == reg[CHOOSE i \in 1..Len(reg) : reg[i].name = name]
ClassNames(reg) == [i \in 1..Len(reg) |-> reg[i].name]

(* _collect_param_from_bases for __PARAMS__ and __CONFIGURABLES__: the     *)
(* items of the bases, from the last base to the first.                    *)
RECURSIVE collect_param_from_bases(_, _, _, _)
collect_param_from_bases(reg, meta_bases, param_name, i) ==
    IF i = 0 THEN <<>>
    ELSE OdUpdate(collect_param_from_bases(reg, meta_bases, param_name, i - 1),
                  ClassOf(reg, Reverse(meta_bases)[i])[param_name], 1)

(* ... and for __PARAM_DEFAULTS__: a new dict holding the bases' items.    *)
RECURSIVE collect_defaults_from_bases(_, _, _, _, _)
collect_defaults_from_bases(reg, h, meta_bases, target, i) ==
    IF i > Len(meta_bases) THEN h
    ELSE collect_defaults_from_bases(
             reg, dict_update(h, target, ClassOf(reg, Reverse(meta_bases)[i]).PARAM_DEFAULTS),
             meta_bases, target, i + 1)

(* The loop over attrs.items() (lines 59-71).                              *)
RECURSIVE populate_from_attrs(_, _, _, _)
populate_from_attrs(h, cl, attrs, i) ==
    IF i > Len(attrs) THEN [h |-> h, cl |-> cl]
    ELSE LET value == attrs[i]
             attr_name == lstrip(value)
         IN IF ~IsParam(value) THEN populate_from_attrs(h, cl, attrs, i + 1)
            ELSE With(AllocTree(h, value.default, <<>>, AllKeys), LAMBDA d :
                 With([cl EXCEPT !.PARAMS = OdSet(@, attr_name, value.doc)], LAMBDA cl1 :
                 populate_from_attrs(
                     IF value.default[<<>>] # NO_DEFAULT
                     THEN SetItem(d.h, cl.PARAM_DEFAULTS, attr_name, d.v)
                     ELSE h,
                     IF value.type.k \in {"class", "ConfigList", "ConfigCollection"}
                     THEN [cl1 EXCEPT !.CONFIGURABLES = OdSet(@, attr_name, value.type)]
                     ELSE cl1,
                     attrs, i + 1)))

(* ConfigurableMeta.__new__(cls, name, bases, attrs): the class is added   *)
(* to the classes defined so far.                                          *)
ConfigurableMeta_new(reg, h, stmt) ==
    With(populate_from_attrs(
             collect_defaults_from_bases(reg, Append(h, Obj("dict", <<>>, <<>>)),
                                         stmt.bases, Len(h) + 1, 1),
             [name |-> stmt.name, bases |-> stmt.bases, attrs |-> stmt.attrs,
              PARAMS |-> collect_param_from_bases(reg, stmt.bases, "PARAMS", Len(stmt.bases)),
              CONFIGURABLES |->
                  collect_param_from_bases(reg, stmt.bases, "CONFIGURABLES", Len(stmt.bases)),
              PARAM_DEFAULTS |-> Len(h) + 1],
             stmt.attrs, 1), LAMBDA r :
         [h |-> r.h, reg |-> Append(reg, r.cl)])

(* The class statements of a program, executed in order.                   *)
RECURSIVE DefineClasses(_, _, _, _)
DefineClasses(reg, h, stmts, i) ==
    IF i > Len(stmts) THEN [h |-> h, reg |-> reg]
    ELSE With(ConfigurableMeta_new(reg, h, stmts[i]), LAMBDA r :
              DefineClasses(r.reg, r.h, stmts, i + 1))

----------------------------------------------------------------------------
(* configurable.py / configurable_factory.py: the resolver.                *)

(* cls.__subclasses__() and Configurable._all_subclasses                   *)
subclasses(reg, cls) ==
    {reg[i].name : i \in {j \in 1..Len(reg) : \E b \in 1..Len(reg[j].bases) : reg[j].bases[b] = cls}}
RECURSIVE all_subclasses(_, _)
all_subclasses_direct(reg, cls) == subclasses(reg, cls)

all_subclasses(reg, cls) ==
    subclasses(reg, cls) \cup UNION {all_subclasses(reg, c) : c \in subclasses(reg, cls)}

RECURSIVE JoinNames(_)
JoinNames(names) ==
    IF names = <<>> THEN ""
    ELSE names[1] \o (IF Len(names) > 1 THEN ", " ELSE "") \o JoinNames(Tail(names))
NoMatchError == "KeyError: Scooch configuration does not match any class in the provided class hierarchy"
AmbiguousError(base_name, names) ==
    "KeyError: Attempted to retrieve class of type " \o base_name
        \o ", which matches multiple possible classes: [" \o JoinNames(names) \o "]"

(* An element of a Python list that is a str, or a class object.           *)
PyStr(x) == [py |-> "str", name |-> x]
PyClass(x) == [py |-> "class", name |-> x]

(* The while loop of lines 79-80.                                          *)
RECURSIVE unwrap(_)
unwrap(base_class) ==
    IF base_class.k \in {"ConfigList", "ConfigCollection"} THEN unwrap(base_class.sub[1])
    ELSE base_class

GRes(cls, e) == [cls |-> cls, e |-> e]

(* ConfigurableFactory.get_class(base_class, config)                       *)
get_class(reg, h, base_class, config) ==
    With(unwrap(base_class), LAMBDA base :
    IF base.k # "class" THEN GRes("", "AttributeError: _all_subclasses")
    ELSE IF ~IsDict(h, config) THEN GRes("", "AttributeError: keys")
    ELSE With(SelectSeq(ClassNames(reg), LAMBDA c : c \in all_subclasses(reg, base.name))
              \o <<base.name>>, LAMBDA fclsses :
         With(SelectSeq(h[config.a].ks, LAMBDA f : \E j \in 1..Len(fclsses) : fclsses[j] = f),
              LAMBDA selected :
         With([i \in 1..Len(selected) |-> PyStr(selected[i])], LAMBDA matching_classes :
         With([i \in 1..Len(matching_classes) |-> PyClass(matching_classes[i].name)],
              LAMBDA f_classes :
         IF Len(matching_classes) = 0 THEN GRes("", NoMatchError)
         ELSE IF Len(f_classes) = 1 THEN GRes(f_classes[1].name, "")
         ELSE IF \E i \in 1..Len(matching_classes) : matching_classes[i].py # "class"
         THEN GRes("", "AttributeError: 'str' object has no attribute '__name__'")
         ELSE GRes("", AmbiguousError(base.name,
                                      [i \in 1..Len(matching_classes) |->
                                           matching_classes[i].name])))))))

----------------------------------------------------------------------------
(* configurable.py: default population and verification.                   *)

RECURSIVE populate_defaults_recurse(_, _, _, _, _, _),
          populate_defaults_fields(_, _, _, _, _, _, _),
          populate_defaults_items(_, _, _, _, _, _), populate_defaults_in(_, _, _, _, _)

(* Configurable._populate_defaults_recurse(cls, cfg, defaults).  A cfg of  *)
(* None is replaced by a new dict that only this call holds.  stack holds  *)
(* the configurations whose populate_defaults has not returned: entering   *)
(* one of them again is a recursion without end, which Python ends with    *)
(* RecursionError.                                                         *)
populate_defaults_recurse(reg, h, cls, cfg, defaults, stack) ==
    LET h1 == IF cfg = VNone THEN Append(h, Obj("dict", <<>>, <<>>)) ELSE h
        cfg1 == IF cfg = VNone THEN VRef(Len(h) + 1) ELSE cfg
    IN IF ~IsDict(h1, cfg1) THEN Res(h1, VNone, "AttributeError: keys")
       ELSE With(populate_defaults_fields(reg, h1, cls, cfg1.a, defaults, 1, stack), LAMBDA r :
                 IF r.e # "" THEN r
                 ELSE populate_defaults_items(reg, r.h, cls, cfg1.a, 1, stack))

(* The loop over defaults.items() (lines 119-124).                         *)
populate_defaults_fields(reg, h, cls, cfg, defaults, i, stack) ==
    IF i > Len(h[defaults].ks) THEN Res(h, VNone, "")
    ELSE LET field == h[defaults].ks[i]
             value == h[defaults].vs[i]
         IN IF ~DictHas(h[cfg], field)
            THEN populate_defaults_fields(reg, SetItem(h, cfg, field, value),
                                          cls, cfg, defaults, i + 1, stack)
            ELSE IF IsDict(h, value)
            THEN With(populate_defaults_recurse(reg, h, cls, DictGet(h[cfg], field), value.a,
                                                stack),
                      LAMBDA r :
                      IF r.e # "" THEN r
                      ELSE populate_defaults_fields(reg, r.h, cls, cfg, defaults, i + 1, stack))
            ELSE populate_defaults_fields(reg, h, cls, cfg, defaults, i + 1, stack)

(* The loop over cfg.items() (lines 127-134): only a field declared with a *)
(* Configurable class is looked into, not a ConfigList or ConfigCollection. *)
populate_defaults_items(reg, h, cls, cfg, i, stack) ==
    IF i > Len(h[cfg].ks) THEN Res(h, VNone, "")
    ELSE LET key == h[cfg].ks[i]
             sub_cfg == h[cfg].vs[i]
             configurables == ClassOf(reg, cls).CONFIGURABLES
         IN IF OdHas(configurables, key) /\ sub_cfg # VNone
               /\ OdGet(configurables, key).k = "class"
            THEN With(get_class(reg, h, OdGet(configurables, key), sub_cfg), LAMBDA g :
                      IF g.e # "" THEN Res(h, VNone, g.e)
                      ELSE With(populate_defaults_in(reg, h, g.cls, sub_cfg, stack), LAMBDA r :
                                IF r.e # "" THEN r
                                ELSE populate_defaults_items(reg, r.h, cls, cfg, i + 1, stack)))
            ELSE populate_defaults_items(reg, h, cls, cfg, i + 1, stack)

(* Configurable.populate_defaults(cls, cfg), called while the calls for    *)
(* the configurations of stack have not returned.                          *)
populate_defaults_in(reg, h, cls, cfg, stack) ==
    IF ~IsDict(h, cfg) THEN Res(h, VNone, "TypeError: not subscriptable")
    ELSE IF cfg.a \in stack THEN Res(h, VNone, "RecursionError")
    ELSE IF ~DictHas(h[cfg.a], cls) THEN Res(h, VNone, "KeyError: " \o cls)
    ELSE populate_defaults_recurse(reg, h, cls, DictGet(h[cfg.a], cls),
                                   ClassOf(reg, cls).PARAM_DEFAULTS, stack \cup {cfg.a})

(* Configurable.populate_defaults(cls, cfg)                                *)
populate_defaults(reg, h, cls, cfg) == populate_defaults_in(reg, h, cls, cfg, {})

SeqSet(s) == {s[i] : i \in 1..Len(s)}
MissingError == "ValueError: Scooch config error: The required keys were not found"
ExtraneousError == "ValueError: Scooch config error: extraneous key(s) found in Config"

(* Configurable._verify_config(cfg, template): the exception it raises.    *)
verify_config(h, cfg, template) ==
    IF ~IsDict(h, cfg) THEN "AttributeError: keys"
    ELSE LET missing_keys == SeqSet(template) \ KeySet(h[cfg.a])
             extraneous_keys == KeySet(h[cfg.a]) \ SeqSet(template)
         IN IF missing_keys # {} THEN MissingError
            ELSE IF extraneous_keys # {} THEN ExtraneousError
            ELSE ""

(* Configurable._verify_config(cfg, template): the checks it computes, in  *)
(* order: the missing keys (line 152) and, when that check does not raise, *)
(* the extraneous keys (line 156).                                         *)
verify_config_checks(h, cfg, template) ==
    IF ~IsDict(h, cfg) THEN <<>>
    ELSE IF SeqSet(template) \ KeySet(h[cfg.a]) # {} THEN <<"missing">>
    ELSE <<"missing", "extraneous">>

----------------------------------------------------------------------------
(* configurable_factory.py and configurable.py: construction.  A           *)
(* constructed Configurable is an object of kind "Configurable": cls is    *)
(* its class, aux its _cfg, and its keys and values are _config_instances. *)

DEFAULT_CUSTOM_PARAMS == 1   \* the address of the dict that is the default of custom_params

(* bool(x) is False                                                        *)
Falsy(h, v) ==
    \/ v = VNone
    \/ v.t = "int" /\ v.a = 0
    \/ v.t = "str" /\ v.s = <<>>
    \/ v.t = "ref" /\ h[v.a].vs = <<>>

(* What a for loop over a value yields: the elements of a list, the keys   *)
(* of a dict, the characters of a str.                                     *)
Iterable(h, v) == v.t \in {"ref", "str"}
Elements(h, v) ==
    IF IsList(h, v) THEN h[v.a].vs
    ELSE IF IsDict(h, v) THEN [i \in 1..Len(h[v.a].ks) |-> Lit(h[v.a].ks[i])]
    ELSE IF v.s = <<>> THEN <<>> ELSE <<v>>

RECURSIVE construct(_, _, _, _), construct_collection(_, _, _, _, _, _, _),
          construct_list(_, _, _, _, _, _), class_instance_for_config(_, _, _, _),
          Configurable_init(_, _, _, _), construct_params(_, _, _, _, _, _),
          construct_list_droplast(_, _, _, _, _, _)

(* ConfigurableFactory.construct(cfg_type, cfg)                            *)
construct(reg, h, cfg_type, cfg) ==
    IF cfg_type.k = "ConfigCollection"
    THEN IF ~IsDict(h, cfg) THEN Res(h, VNone, "AttributeError: items")
         ELSE construct_collection(reg, h, cfg_type.sub[1], cfg.a, 1, <<>>, <<>>)
    ELSE IF cfg_type.k = "ConfigList"
    THEN IF ~Iterable(h, cfg) THEN Res(h, VNone, "TypeError: object is not iterable")
         ELSE construct_list(reg, h, cfg_type.sub[1], Elements(h, cfg), 1, <<>>)
    ELSE IF cfg_type.k = "class"
    THEN With(Config_init(h, cfg, DEFAULT_CUSTOM_PARAMS), LAMBDA c :
              IF c.e # "" THEN Res(c.h, VNone, c.e)
              ELSE class_instance_for_config(reg, c.h, cfg_type, c.v))
    ELSE Res(h, VNone, "TypeError: requested to construct class with Configurable parameter of type")

(* {name: self.construct(cfg_type.subtype, cfg) for name, cfg in cfg.items()} *)
construct_collection(reg, h, subtype, cfg, i, ks, vs) ==
    IF i > Len(h[cfg].ks) THEN Res(Append(h, Obj("dict", ks, vs)), VRef(Len(h) + 1), "")
    ELSE With(construct(reg, h, subtype, h[cfg].vs[i]), LAMBDA r :
              IF r.e # "" THEN r
              ELSE construct_collection(reg, r.h, subtype, cfg, i + 1,
                                        Append(ks, h[cfg].ks[i]), Append(vs, r.v)))

(* [self.construct(cfg_type.subtype, each_cfg) for each_cfg in cfg]        *)
construct_list_droplast(reg, h, subtype, cfgs, i, vs) ==
    IF i >= Len(cfgs) THEN Res(Append(h, Obj("list", <<>>, vs)), VRef(Len(h) + 1), "")
    ELSE With(construct(reg, h, subtype, cfgs[i]), LAMBDA r :
              IF r.e # "" THEN r
              ELSE construct_list_droplast(reg, r.h, subtype, cfgs, i + 1, Append(vs, r.v)))

construct_list(reg, h, subtype, cfgs, i, vs) ==
    IF i > Len(cfgs) THEN Res(Append(h, Obj("list", <<>>, vs)), VRef(Len(h) + 1), "")
    ELSE With(construct(reg, h, subtype, cfgs[i]), LAMBDA r :
              IF r.e # "" THEN r
              ELSE construct_list(reg, r.h, subtype, cfgs, i + 1, Append(vs, r.v)))

(* ConfigurableFactory._class_instance_for_config(base_class, config)      *)
class_instance_for_config(reg, h, base_class, config) ==
    With(get_class(reg, h, base_class, config), LAMBDA g :
         IF g.e # "" THEN Res(h, VNone, g.e)
         ELSE Configurable_init(reg, h, g.cls, config))

(* Configurable.__init__, lines 58-62: the new instance with its _cfg, the *)
(* configuration given or, when its block is empty, a new {name: {}}.      *)
Configurable_cfg(h, cls, cfg) ==
    IF Falsy(h, DictGet(h[cfg.a], cls))
    THEN h \o <<[Obj("Configurable", <<>>, <<>>) EXCEPT !.cls = cls, !.aux = VRef(Len(h) + 3)],
                Obj("dict", <<>>, <<>>),
                Obj("dict", <<cls>>, <<VRef(Len(h) + 2)>>)>>
    ELSE Append(h, [Obj("Configurable", <<>>, <<>>) EXCEPT !.cls = cls, !.aux = cfg])

(* self._cfg[self.__class__.__name__]                                      *)
OwnBlock(h, self) == DictGet(h[h[self].aux.a], h[self].cls)

(* Configurable.__init__(self, cfg): the defaults are populated (lines     *)
(* 64-67), the block is verified (70-71) and the fields are constructed.   *)
Configurable_init(reg, h, cls, cfg) ==
    IF ~DictHas(h[cfg.a], cls) THEN Res(h, VNone, "KeyError: " \o cls)
    ELSE With(Configurable_cfg(h, cls, cfg), LAMBDA h1 :
         With(populate_defaults_recurse(reg, h1, cls, OwnBlock(h1, Len(h) + 1),
                                        ClassOf(reg, cls).PARAM_DEFAULTS, {}), LAMBDA p :
         IF p.e # "" THEN Res(p.h, VNone, p.e)
         ELSE With(verify_config(p.h, OwnBlock(p.h, Len(h) + 1),
                                 OdKeys(ClassOf(reg, cls).PARAMS)), LAMBDA raised :
         IF raised # "" THEN Res(p.h, VNone, raised)
         ELSE construct_params(reg, p.h, cls, Len(h) + 1,
                               OdKeys(ClassOf(reg, cls).PARAMS), 1))))

(* The loop over self.__PARAMS__ (lines 76-88).                            *)
construct_params(reg, h, cls, self, params, i) ==
    IF i > Len(params) THEN Res(h, VRef(self), "")
    ELSE LET param_name == params[i]
             block == h[DictGet(h[h[self].aux.a], cls).a]
             configurables == ClassOf(reg, cls).CONFIGURABLES
         IN IF ~DictHas(block, param_name)
            THEN Res(h, VNone, "ValueError: config is missing a parameter")
            ELSE IF OdHas(configurables, param_name) /\ DictGet(block, param_name) # VNone
            THEN With(construct(reg, h, OdGet(configurables, param_name),
                                DictGet(block, param_name)), LAMBDA r :
                      IF r.e # "" THEN r
                      ELSE construct_params(reg, SetItem(r.h, self, param_name, r.v),
                                            cls, self, params, i + 1))
            ELSE construct_params(reg, SetItem(h, self, param_name, DictGet(block, param_name)),
                                  cls, self, params, i + 1)

----------------------------------------------------------------------------
(* param.py, alias_param.py: assignment to a field of an instance.         *)

(* What an instance of a Configurable class provides besides its fields:   *)
(* the attributes __init__ assigns and the names its class defines.        *)
ConfigurableNames ==
    {"_cfg", "_config_factory", "_config_instances",
     "__SCOOCH_NAME__", "__PARAMS__", "__CONFIGURABLES__", "__PARAM_DEFAULTS__", "__doc__",
     "__init__", "populate_defaults", "_populate_defaults_recurse", "_verify_config",
     "cfg", "_all_subclasses"}
(* What an AliasParam object provides: the attributes its __init__ and     *)
(* __set_name__ assign and the properties of Param and AliasParam.         *)
AliasParamNames ==
    {"_type", "_transform_function", "_source_param_names", "_doc", "_name",
     "default", "doc", "type"}
(* The names param.py can refer to: its import and its class.              *)
ParamModuleNames == {"ParamDefaults", "Param"}

NoAttribute(name) == "AttributeError: no attribute '" \o name \o "'"
NotSettable == "ValueError: parameter is an alias and is not settable"
CannotBeSet == "AttributeError: parameter is an alias and cannot be set directly"

(* The descriptor the class of an instance holds for a field: the one its  *)
(* class statement declares, or else the Param that ConfigurableMeta       *)
(* creates for a name of __PARAMS__ (configurable_meta.py, lines 79-92).   *)
DescriptorOf(stmts, cls, name) ==
    LET stmt == stmts[CHOOSE i \in 1..Len(stmts) : stmts[i].name = cls]
        own == SelectSeq(stmt.attrs, LAMBDA attr : lstrip(attr) = name)
    IN IF own # <<>> THEN own[1].descriptor ELSE "Param"

(* Param.__set__, lines 116-122: the value is stored, the block is updated *)
(* and the aliases are refreshed.                                          *)
Param_store(h, instance, name, obj, value) ==
    With(SetItem(h, instance, name, obj), LAMBDA h1 :
    With(SetItem(h1, OwnBlock(h1, instance).a, name, value), LAMBDA h2 :
         IF "update_aliases" \notin ConfigurableNames
         THEN Res(h2, VNone, NoAttribute("update_aliases"))
         ELSE Res(h2, VNone, "")))

(* Param.__set__(self, instance, value), where self._name = name.          *)
Param_set(reg, h, instance, name, value) ==
    LET configurables == ClassOf(reg, h[instance].cls).CONFIGURABLES
    IN IF "__PARAM_ALIASES__" \notin ConfigurableNames
       THEN Res(h, VNone, NoAttribute("__PARAM_ALIASES__"))
       ELSE IF OdHas(configurables, name)
       THEN IF IsDict(h, value)
            THEN With(construct(reg, h, OdGet(configurables, name), value), LAMBDA r :
                      IF r.e # "" THEN r ELSE Param_store(r.h, instance, name, r.v, value))
            ELSE IF "Configurable" \notin ParamModuleNames
            THEN Res(h, VNone, "NameError: name 'Configurable' is not defined")
            ELSE Res(h, VNone, "TypeError: isinstance() arg 2 must be a type")
       ELSE Param_store(h, instance, name, value, value)

(* AliasParam.__set__(self, instance, value): the message of the error is  *)
(* formatted from self.name before the error is raised.                    *)
AliasParam_set(h, instance, name, value) ==
    IF "name" \notin AliasParamNames THEN Res(h, VNone, NoAttribute("name"))
    ELSE Res(h, VNone, CannotBeSet)

(* instance.<attribute> = value, for the attribute a field is declared as. *)
setattr(reg, stmts, h, instance, name, value) ==
    IF DescriptorOf(stmts, h[instance].cls, name) = "AliasParam"
    THEN AliasParam_set(h, instance, name, value)
    ELSE Param_set(reg, h, instance, name, value)

(* param.py: Param.__get__(instance, owner), the value of obj.name.        *)
Param_get(h, instance, name) == DictGet(h[instance.a], name)

(* AliasParam.__get__(self, instance, owner): the transform applied to the *)
(* values the source fields read as; and instance._name, read through the  *)
(* descriptor the class holds.                                             *)
RECURSIVE AliasParam_get(_, _, _, _), getattr(_, _, _, _)
AliasParam_get(stmts, h, instance, attr) ==
    Transform(attr.transform_function,
              [i \in 1..Len(attr.source_param_names) |->
                  getattr(stmts, h, instance, attr.source_param_names[i])])
getattr(stmts, h, instance, name) ==
    LET stmt == stmts[CHOOSE i \in 1..Len(stmts) : stmts[i].name = h[instance.a].cls]
        own == SelectSeq(stmt.attrs, LAMBDA attr : lstrip(attr) = name)
    IN IF DescriptorOf(stmts, h[instance.a].cls, name) = "AliasParam"
       THEN AliasParam_get(stmts, h, instance, own[1])
       ELSE Param_get(h, instance, name)

(* Configurable.cfg: copy.copy(self._cfg), a new mapping with the items of *)
(* the stored one.                                                         *)
cfg_property(h, self) == Res(Append(h, h[h[self].aux.a]), VRef(Len(h) + 1), "")

----------------------------------------------------------------------------
(* A scenario runs the operations of one part of the library; the state of *)
(* the other parts is idle in it.                                          *)

Loaders == {1, 2}
(* No attribute has been assigned.                                         *)
NoWrite == [name |-> "", value |-> VNone]
NoConfig ==
    /\ config_file = [i \in Loaders |-> VNone]
    /\ custom_params = [i \in Loaders |-> VNone]
    /\ config_obj = [i \in Loaders |-> VNone]
    /\ cpc = [i \in Loaders |-> "off"]
    /\ cerr = [i \in Loaders |-> ""]
    /\ json = [i \in Loaders |-> ""]
    /\ hashid = [i \in Loaders |-> ""]
    /\ eframes = [i \in Loaders |-> <<>>]
NoConfigurable ==
    /\ registry = <<>>
    /\ kpc = "off"
    /\ ktype = PyType("")
    /\ kdoc = VNone
    /\ kclass = ""
    /\ kobj = VNone
    /\ kwrite = NoWrite
    /\ kerr = ""
NoMerge ==
    /\ pc = "off"
    /\ err = ""
    /\ dict1 = VNone
    /\ override = VNone
    /\ merged = VNone

----------------------------------------------------------------------------
(* The merge scenario: a base tree and an override tree are built, and     *)
(* merge_dicts is called on them once.  The override is a tree of its own, *)
(* or the base object itself (merge(x, x)).                                *)

MergeKeys == <<"a", "b">>
MergeOverrideKeys == <<"#-1", "#0", "a">>
MergeLeaves == {VInt(1), VInt(2)}
HashOrders == {AllKeys, Reverse(AllKeys)}

InitMerge ==
    /\ hashOrder \in HashOrders
    /\ \E tb \in DictTreesUpTo(MaxBaseNodes, MergeKeys, MergeLeaves, MaxListLen),
          tov \in DictTreesUpTo(MaxOverrideNodes, MergeOverrideKeys, MergeLeaves, MaxListLen),
          same \in BOOLEAN :
         LET rb == AllocTree(<<>>, tb, <<>>, AllKeys)
             ro == AllocTree(rb.h, tov, <<>>, AllKeys)
         IN /\ (same => tov = (<<>> :> DictLabel))
            /\ heap = ro.h
            /\ dict1 = rb.v
            /\ override = IF same THEN rb.v ELSE ro.v
    /\ heap0 = heap
    /\ pc = "start"
    /\ err = ""
    /\ merged = VNone
    /\ NoConfig
    /\ NoConfigurable

Merge ==
    /\ pc = "start"
    /\ LET r == merge_dicts(heap, dict1.a, override.a)
       IN /\ heap' = r.h
          /\ merged' = r.v
          /\ err' = r.e
    /\ pc' = "merged"
    /\ UNCHANGED <<heap0, hashOrder, dict1, override, configVars, configurableVars>>

NextMerge == Merge

SpecMerge == InitMerge /\ [][NextMerge]_vars

(* C7: merging a configuration tree x with the empty mapping, or with a    *)
(* tree equal to x, returns without error a tree equal to x.               *)
MergeIdentityAndIdempotence ==
    (pc = "merged"
       /\ ContentOf(heap0, override) \in {(<<>> :> DictLabel), ContentOf(heap0, dict1)})
    => (err = "" /\ ContentOf(heap, merged) = ContentOf(heap0, dict1))

(* A merge of a tree holding a mapping and a sequence with an equal tree   *)
(* built separately has run.                                               *)
MergeIdempotenceWitness ==
    /\ pc = "merged"
    /\ override # dict1
    /\ ContentOf(heap0, override) = ContentOf(heap0, dict1)
    /\ \E p \in DOMAIN ContentOf(heap0, dict1) : Len(p) = 2

(* C8: a call of merge modifies neither base nor override at any depth:    *)
(* every object that existed before the call is unchanged after it.        *)
MergeModifiesNoInput ==
    pc = "merged" => \A a \in 1..Len(heap0) : heap[a] = heap0[a]

----------------------------------------------------------------------------
(* The document scenario: Config(config_file) is called for one or two     *)
(* sources, one call after the other, and the json and hashid properties   *)
(* of each loaded document are read.  No custom parameters are passed, so  *)
(* every call gets the one dict that is the default of the argument.       *)

ConfigNew(i) ==
    /\ cpc[i] = "new"
    /\ \A j \in Loaders : j < i => cpc[j] \notin {"new"}
    /\ LET r == Config_init(heap, config_file[i], custom_params[i].a)
       IN /\ heap' = r.h
          /\ config_obj' = [config_obj EXCEPT ![i] = r.v]
          /\ cerr' = [cerr EXCEPT ![i] = r.e]
          /\ cpc' = [cpc EXCEPT ![i] = IF r.e = "" THEN "loaded" ELSE "failed"]
    /\ UNCHANGED <<heap0, hashOrder, mergeVars, config_file, custom_params, json, hashid, eframes,
                   configurableVars>>

ConfigHash(i) ==
    /\ cpc[i] = "loaded"
    /\ LET r == Config_json(heap, config_obj[i].a)
       IN /\ json' = [json EXCEPT ![i] = r.s]
          /\ hashid' = [hashid EXCEPT ![i] = IF r.e = "" THEN sha256(r.s) ELSE ""]
          /\ cerr' = [cerr EXCEPT ![i] = r.e]
          /\ cpc' = [cpc EXCEPT ![i] = IF r.e = "" THEN "hashed" ELSE "failed"]
    /\ UNCHANGED <<heap, heap0, hashOrder, mergeVars, config_file, custom_params, config_obj, eframes,
                   configurableVars>>

NextConfig == \E i \in Loaders : ConfigNew(i) \/ ConfigHash(i)

(* Two sources for the hash: the same tree, or the tree with one leaf      *)
(* changed, the keys of the second inserted in the same or the opposite    *)
(* order.                                                                  *)
HashKeys == <<"a", "b">>
HashLeaves == {VInt(1), Lit("1"), Macro("datetime")}
IsLeaf(t, p) == t[p].t \notin {"dict", "list"}
OneLeafChanged(t) ==
    {[t EXCEPT ![p] = l] : p \in {q \in DOMAIN t : IsLeaf(t, q)}, l \in HashLeaves} \ {t}

InitHash ==
    /\ hashOrder \in HashOrders
    /\ \E t1 \in DictTreesUpTo(MaxHashNodes, HashKeys, HashLeaves, MaxListLen),
          ord \in {AllKeys, Reverse(AllKeys)} :
         \E t2 \in {t1} \cup OneLeafChanged(t1) :
            LET d == Append(<<>>, Obj("dict", <<>>, <<>>))
                r1 == AllocTree(d, t1, <<>>, AllKeys)
                r2 == AllocTree(r1.h, t2, <<>>, ord)
            IN /\ heap = r2.h
               /\ config_file = (1 :> r1.v) @@ (2 :> r2.v)
               /\ custom_params = [i \in Loaders |-> VRef(DEFAULT_CUSTOM_PARAMS)]
    /\ heap0 = heap
    /\ config_obj = [i \in Loaders |-> VNone]
    /\ cpc = [i \in Loaders |-> "new"]
    /\ cerr = [i \in Loaders |-> ""]
    /\ json = [i \in Loaders |-> ""]
    /\ hashid = [i \in Loaders |-> ""]
    /\ eframes = [i \in Loaders |-> <<>>]
    /\ NoMerge
    /\ NoConfigurable

SpecHash == InitHash /\ [][NextConfig]_vars

SameShape(c1, c2) ==
    /\ DOMAIN c1 = DOMAIN c2
    /\ \A p \in DOMAIN c1 : IsLeaf(c1, p) = IsLeaf(c2, p) /\ (~IsLeaf(c1, p) => c1[p] = c2[p])

(* C9: the hash of a document depends on its resolved content only: two    *)
(* documents loaded from equal trees, whatever the insertion order of the  *)
(* keys, and more generally two documents of equal content, have the same  *)
(* JSON serialization and the same hash; two documents of the same shape   *)
(* that differ in a leaf value have different hashes.                      *)
HashDependsOnContentOnly ==
    (cpc[1] = "hashed" /\ cpc[2] = "hashed") =>
        LET c1 == ContentOf(heap, config_obj[1])
            c2 == ContentOf(heap, config_obj[2])
        IN /\ ContentOf(heap0, config_file[1]) = ContentOf(heap0, config_file[2])
                => (json[1] = json[2] /\ hashid[1] = hashid[2])
           /\ c1 = c2 => (json[1] = json[2] /\ hashid[1] = hashid[2])
           /\ (SameShape(c1, c2) /\ c1 # c2) => hashid[1] # hashid[2]

(* Two documents were loaded from equal trees whose keys were inserted in  *)
(* different orders, and both were hashed.                                 *)
HashInsertionOrderWitness ==
    /\ cpc[1] = "hashed" /\ cpc[2] = "hashed"
    /\ ContentOf(heap0, config_file[1]) = ContentOf(heap0, config_file[2])
    /\ heap0[config_file[1].a].ks # heap0[config_file[2].a].ks
    /\ \E p \in DOMAIN ContentOf(heap, config_obj[1]) : ContentOf(heap, config_obj[1])[p].t = "str"

----------------------------------------------------------------------------
(* The macro scenario: one document is loaded from a tree that holds       *)
(* ${inherit} and ${c} markers, without a constants table, with the table  *)
(* {c: 7} or with an empty table.                                          *)

MacroKeys == <<"A", "B", "x">>
MacroLeaves == {VInt(1), Macro("inherit"), Macro("c")}
ConstantsTables == {<<>>, <<"c">>}

InitMacro ==
    /\ hashOrder = AllKeys
    /\ \E t \in DictTreesUpTo(MaxMacroNodes, MacroKeys, MacroLeaves, MaxMacroListLen),
          ord \in {AllKeys, Reverse(AllKeys)},
          constants \in BOOLEAN, names \in ConstantsTables :
         LET d == Append(<<>>, Obj("dict", <<>>, <<>>))
             r == AllocTree(d, t, <<>>, ord)
             k == Append(r.h, Obj("dict", names, [i \in 1..Len(names) |-> VInt(7)]))
         IN /\ (~constants => names = <<>>)
            /\ heap = IF constants THEN SetItem(k, r.v.a, CONSTANTS_KEY, VRef(Len(k))) ELSE r.h
            /\ config_file = (1 :> r.v) @@ (2 :> VNone)
            /\ custom_params = (1 :> VRef(DEFAULT_CUSTOM_PARAMS)) @@ (2 :> VNone)
    /\ heap0 = heap
    /\ config_obj = [i \in Loaders |-> VNone]
    /\ cpc = (1 :> "new") @@ (2 :> "off")
    /\ cerr = [i \in Loaders |-> ""]
    /\ json = [i \in Loaders |-> ""]
    /\ hashid = [i \in Loaders |-> ""]
    /\ eframes = [i \in Loaders |-> <<>>]
    /\ NoMerge
    /\ NoConfigurable

(* The macro scenario only loads the document.                             *)
NextMacro == \E i \in Loaders : ConfigNew(i)
SpecMacro == InitMacro /\ [][NextMacro]_vars

(* The value a path leads to from a value.                                 *)
RECURSIVE ValueAt(_, _, _)
ValueAt(h, v, p) ==
    IF p = <<>> THEN v
    ELSE IF h[v.a].kind = "list" THEN ValueAt(h, h[v.a].vs[KeyInt(p[1]) + 1], Tail(p))
    ELSE ValueAt(h, DictGet(h[v.a], p[1]), Tail(p))
Prefix(p, n) == SubSeq(p, 1, n)

(* The mapping at path m is one the traversal gives an upward link: below  *)
(* the root, every step goes to a value of a mapping or to an element of a *)
(* sequence that a mapping holds.                                          *)
LinkedMapping(t, m) ==
    /\ m \in DOMAIN t /\ t[m].t = "dict"
    /\ \A n \in 1..Len(m) :
          \/ t[Prefix(m, n)].t = "dict"
          \/ t[Prefix(m, n)].t = "list" /\ t[Prefix(m, n - 1)].t = "dict" /\ n < Len(m)

(* The strict ancestor mappings of the mapping at m that define key k.     *)
Definers(t, m, k) ==
    {n \in 0..(Len(m) - 1) : t[Prefix(m, n)].t = "dict" /\ (Prefix(m, n) \o <<k>>) \in DOMAIN t}
NearestDefiner(t, m, k) ==
    Prefix(m, CHOOSE n \in Definers(t, m, k) : \A n2 \in Definers(t, m, k) : n2 <= n)

(* The places of a "${inherit}" string: at key k of the mapping at m, or   *)
(* an element of the sequence at key k of that mapping.                    *)
InheritSites(t) ==
    {s \in [m : {p \in DOMAIN t : LinkedMapping(t, p)}, k : KeySet([ks |-> MacroKeys]), p : DOMAIN t] :
        /\ t[s.p] = Macro("inherit")
        /\ \/ s.p = s.m \o <<s.k>>
           \/ /\ Len(s.p) = Len(s.m) + 2
              /\ Prefix(s.p, Len(s.m) + 1) = s.m \o <<s.k>>
              /\ t[s.m \o <<s.k>>].t = "list"}

(* C10: when a document is loaded, a "${inherit}" string at key k of a     *)
(* mapping M, or in the sequence at key k of M, has been replaced by the   *)
(* value at key k of the nearest strict ancestor mapping of M that defines *)
(* k; the ancestors of a mapping held in a sequence are the mapping that   *)
(* holds the sequence and its ancestors.                                   *)
InheritTakesNearestAncestor ==
    cpc[1] \in {"loaded", "hashed"} =>
        LET src == ContentOf(heap0, config_file[1])
            res == ContentOf(heap, config_obj[1])
        IN \A s \in InheritSites(src) :
              /\ Definers(res, s.m, s.k) # {}
              /\ ContentOf(heap, ValueAt(heap, config_obj[1], s.p))
                    = ContentOf(heap, ValueAt(heap, config_obj[1], NearestDefiner(res, s.m, s.k) \o <<s.k>>))

(* The tree {A: {x: 1, B: {x: "${inherit}"}}} was loaded, and the inner x  *)
(* is 1.                                                                   *)
InheritExampleWitness ==
    /\ cpc[1] = "loaded"
    /\ ContentOf(heap0, config_file[1]) =
          (<<>> :> DictLabel) @@ (<<"A">> :> DictLabel) @@ (<<"A", "x">> :> VInt(1))
          @@ (<<"A", "B">> :> DictLabel) @@ (<<"A", "B", "x">> :> Macro("inherit"))
    /\ ContentOf(heap, config_obj[1])[<<"A", "B", "x">>] = VInt(1)

----------------------------------------------------------------------------
(* The construction scenario: the classes are defined, and for a type and  *)
(* a configuration either ConfigurableFactory.construct is called, or the  *)
(* steps are taken one by one: get_class, the class's populate_defaults,   *)
(* and _verify_config of the block against the class's __PARAMS__.         *)

Resolve ==
    /\ kpc = "start"
    /\ LET g == get_class(registry, heap, ktype, kdoc)
       IN /\ kclass' = g.cls
          /\ kerr' = g.e
          /\ kpc' = IF g.e = "" THEN "resolved" ELSE "unresolved"
    /\ UNCHANGED <<heap, heap0, hashOrder, mergeVars, configVars, registry, ktype, kdoc, kobj, kwrite>>

PopulateDefaults ==
    /\ kpc = "resolved"
    /\ LET r == populate_defaults(registry, heap, kclass, kdoc)
       IN /\ heap' = r.h
          /\ kerr' = r.e
          /\ kpc' = IF r.e = "" THEN "populated" ELSE "unpopulated"
    /\ UNCHANGED <<heap0, hashOrder, mergeVars, configVars, registry, ktype, kdoc, kclass, kobj, kwrite>>

VerifyConfig ==
    /\ kpc = "populated"
    /\ kerr' = verify_config(heap, DictGet(heap[kdoc.a], kclass),
                             OdKeys(ClassOf(registry, kclass).PARAMS))
    /\ kpc' = "verified"
    /\ UNCHANGED <<heap, heap0, hashOrder, mergeVars, configVars, registry, ktype, kdoc, kclass, kobj, kwrite>>

Construct ==
    /\ kpc = "start"
    /\ LET r == construct(registry, heap, ktype, kdoc)
       IN /\ heap' = r.h
          /\ kobj' = r.v
          /\ kerr' = r.e
    /\ kpc' = "constructed"
    /\ UNCHANGED <<heap0, hashOrder, mergeVars, configVars, registry, ktype, kdoc, kclass, kwrite>>

NextConfigurable == Resolve \/ PopulateDefaults \/ VerifyConfig \/ Construct

(* Configurations, as trees.                                               *)
RECURSIVE KidsOf(_, _, _)
KidsOf(ks, ts, i) == IF i > Len(ks) THEN <<>> ELSE Shift(ks[i], ts[i]) @@ KidsOf(ks, ts, i + 1)
MappingOf(ks, ts) == (<<>> :> DictLabel) @@ KidsOf(ks, ts, 1)
SequenceOf(ts) == (<<>> :> ListLabel) @@ KidsOf([i \in 1..Len(ts) |-> IdxKey(i - 1)], ts, 1)
Block(cls, body) == MappingOf(<<cls>>, <<body>>)
Empty == MappingOf(<<>>, <<>>)
ListsOf(n, elems) == {SequenceOf(f) : f \in UNION {[1..m -> elems] : m \in 0..n}}
CollectionsOf(names, elems) ==
    {MappingOf(SelectSeq(names, LAMBDA k : k \in DOMAIN f),
               [i \in 1..Cardinality(DOMAIN f) |-> f[SelectSeq(names, LAMBDA k : k \in DOMAIN f)[i]]])
        : f \in UNION {[S -> elems] : S \in SUBSET SeqSet(names)}}
(* A mapping that holds each key with one of its values, or not at all.    *)
RECURSIVE BodiesOf(_, _, _)
BodiesOf(ks, options, i) ==
    IF i > Len(ks) THEN {<<>>}
    ELSE LET rest == BodiesOf(ks, options, i + 1)
         IN rest \cup {Shift(ks[i], t) @@ r : t \in options[i], r \in rest}

NoiseBodies ==
    {Leaf(VNone), Empty, MappingOf(<<"noise_min">>, <<Leaf(VInt(0 - 5))>>),
     MappingOf(<<"x">>, <<Leaf(VInt(1))>>)}
GatedBodies ==
    {Leaf(VNone)} \cup {(<<>> :> DictLabel) @@ b :
                          b \in BodiesOf(<<"gain", "x">>, <<{Leaf(VInt(2))}, {Leaf(VInt(1))}>>, 1)}
AugmenterDocs ==
    {Block("NoiseAugmenter", b) : b \in NoiseBodies}
    \cup {Block("GatedNoiseAugmenter", b) : b \in GatedBodies}
    \cup {Block("DCOffsetAugmenter", Leaf(VNone)), Block("DCOffsetAugmenter", Empty),
          Block("Augmenter", Empty), Empty,
          MappingOf(<<"DCOffsetAugmenter", "NoiseAugmenter">>, <<Empty, Empty>>)}
ElementDocs ==
    {Block("NoiseAugmenter", MappingOf(<<"noise_min">>, <<Leaf(VInt(0 - 5))>>)),
     Block("DCOffsetAugmenter", Leaf(VNone)),
     Block("GatedNoiseAugmenter", MappingOf(<<"gain">>, <<Leaf(VInt(2))>>))}
BatcherDocument ==
    Block("Batcher",
          MappingOf(<<"batch_size", "augmenter">>,
                    <<Leaf(VInt(4)),
                      Block("NoiseAugmenter", MappingOf(<<"noise_min">>, <<Leaf(VInt(0 - 5))>>))>>))
BatcherDocs ==
    {BatcherDocument, Block("Batcher", Leaf(VNone)), Block("Batcher", Empty),
     Block("Batcher", MappingOf(<<"batch_size">>, <<Leaf(VInt(4))>>))}
MixerDocs ==
    {Block("Mixer", (<<>> :> DictLabel) @@ b) :
        b \in BodiesOf(<<"rate", "augmenter", "chain", "bank", "x">>,
                       <<{Leaf(VInt(5))},
                         {Leaf(VNone), Empty,
                          Block("NoiseAugmenter", Leaf(VNone)),
                          Block("NoiseAugmenter", MappingOf(<<"noise_min">>, <<Leaf(VInt(0 - 5))>>)),
                          Block("GatedNoiseAugmenter", Empty)},
                         ListsOf(1, ElementDocs),
                         CollectionsOf(<<"a">>, ElementDocs),
                         {Leaf(VInt(1))}>>, 1)}
(* Blocks for the resolver: every set of these keys, each with no block.   *)
ResolveKeys ==
    <<"Augmenter", "Batcher", "DCOffsetAugmenter", "GatedNoiseAugmenter", "NoiseAugmenter", "x">>
KeyDocs ==
    {MappingOf(SelectSeq(ResolveKeys, LAMBDA k : k \in S),
               [i \in 1..Cardinality(S) |-> Leaf(VNone)]) : S \in SUBSET SeqSet(ResolveKeys)}
ResolveTypes ==
    {Class(ClassStatements[i].name) : i \in 1..Len(ClassStatements)}
    \cup {ConfigList(Class("NoiseAugmenter")), ConfigCollection(ConfigList(Class("Augmenter")))}

Input(type, tree) == [type |-> type, tree |-> tree]
Inputs ==
    {Input(t, d) : t \in ResolveTypes, d \in KeyDocs}
    \cup {Input(Class("Augmenter"), d) : d \in AugmenterDocs}
    \cup {Input(Class("Batcher"), d) : d \in BatcherDocs}
    \cup {Input(Class("Mixer"), d) : d \in MixerDocs}
    \cup {Input(ConfigList(Class("Augmenter")), d) : d \in ListsOf(MaxElements, ElementDocs)}
    \cup {Input(ConfigCollection(Class("Augmenter")), d) : d \in CollectionsOf(<<"a", "b">>, ElementDocs)}
    \cup {Input(ConfigList(ConfigList(Class("Augmenter"))), d) :
             d \in ListsOf(2, ListsOf(1, ElementDocs))}
    \cup {Input(ConfigCollection(ConfigList(Class("Augmenter"))), d) :
             d \in CollectionsOf(<<"a", "b">>, ListsOf(1, ElementDocs))}
    \cup {Input(PyType("int"), Block("Augmenter", Empty))}

(* The program after its imports: address 1 holds the dict that is the     *)
(* default of Config's custom_params, and every class statement has run.   *)
Program == DefineClasses(<<>>, <<Obj("dict", <<>>, <<>>)>>, ClassStatements, 1)

InitConfigurable ==
    /\ hashOrder \in HashOrders
    /\ \E in \in Inputs, ord \in {AllKeys, Reverse(AllKeys)} :
         LET r == AllocTree(Program.h, in.tree, <<>>, ord)
         IN /\ heap = r.h
            /\ registry = Program.reg
            /\ ktype = in.type
            /\ kdoc = r.v
    /\ heap0 = heap
    /\ kpc = "start"
    /\ kclass = ""
    /\ kobj = VNone
    /\ kwrite = NoWrite
    /\ kerr = ""
    /\ NoMerge
    /\ NoConfig

SpecConfigurable == InitConfigurable /\ [][NextConfigurable]_vars

----------------------------------------------------------------------------
(* Properties of the construction scenario.                                *)

IsConfigurable(h, v) == v.t = "ref" /\ h[v.a].kind = "Configurable"
HasValue(h, v, name, value) ==
    IsConfigurable(h, v) /\ DictHas(h[v.a], name) /\ Param_get(h, v, name) = value

(* C1: constructing Batcher from {Batcher: {batch_size: 4, augmenter:      *)
(* {NoiseAugmenter: {noise_min: -5}}}} succeeds and yields an object with  *)
(* batch_size = 4, augmenter.noise_min = -5 and augmenter.noise_max = 10.  *)
BatcherEndToEnd ==
    (kpc = "constructed" /\ ktype = Class("Batcher") /\ ContentOf(heap0, kdoc) = BatcherDocument)
        => /\ kerr = ""
           /\ HasValue(heap, kobj, "batch_size", VInt(4))
           /\ IsConfigurable(heap, kobj) /\ DictHas(heap[kobj.a], "augmenter")
           /\ HasValue(heap, Param_get(heap, kobj, "augmenter"), "noise_min", VInt(0 - 5))
           /\ HasValue(heap, Param_get(heap, kobj, "augmenter"), "noise_max", VInt(10))

(* The declared field names of the resolved class, and the keys of its     *)
(* block in the document.                                                   *)
Declared == SeqSet(OdKeys(ClassOf(registry, kclass).PARAMS))
BlockOf(h) == DictGet(h[kdoc.a], kclass)
BlockKeys == KeySet(heap[BlockOf(heap).a])

(* C2: after default population, a block that lacks a declared field fails *)
(* verification with the missing-field error, a block that holds an        *)
(* undeclared key fails with the extraneous-field error, and a block whose *)
(* keys are exactly the declared field names passes.                       *)
ValidationSymmetry ==
    (kpc = "verified" /\ IsDict(heap, BlockOf(heap)))
        => /\ (Declared \ BlockKeys # {} => kerr = MissingError)
           /\ (BlockKeys \ Declared # {} => kerr = ExtraneousError)
           /\ (BlockKeys = Declared => kerr = "")

(* The fields of a class that have no default.                             *)
Required(reg, h, c) ==
    SeqSet(OdKeys(ClassOf(reg, c).PARAMS)) \ KeySet(h[ClassOf(reg, c).PARAM_DEFAULTS])

RECURSIVE Supplied(_, _, _, _), Populated(_, _, _, _)
(* The value v given for a field of the declared type supplies every field *)
(* that has no default, in the block of each class it names; a null or     *)
(* empty block supplies nothing.                                           *)
Supplied(reg, h, type, v) ==
    IF type.k = "ConfigList"
    THEN IsList(h, v) /\ \A i \in 1..Len(h[v.a].vs) : Supplied(reg, h, type.sub[1], h[v.a].vs[i])
    ELSE IF type.k = "ConfigCollection"
    THEN IsDict(h, v) /\ \A i \in 1..Len(h[v.a].vs) : Supplied(reg, h, type.sub[1], h[v.a].vs[i])
    ELSE /\ type.k = "class"
         /\ get_class(reg, h, type, v).e = ""
         /\ LET c == get_class(reg, h, type, v).cls
                b == DictGet(h[v.a], c)
                configurables == ClassOf(reg, c).CONFIGURABLES
            IN IF b = VNone THEN Required(reg, h, c) = {}
               ELSE /\ IsDict(h, b)
                    /\ Required(reg, h, c) \subseteq KeySet(h[b.a])
                    /\ \A f \in KeySet(h[b.a]) :
                          (OdHas(configurables, f) /\ DictGet(h[b.a], f) # VNone)
                              => Supplied(reg, h, OdGet(configurables, f), DictGet(h[b.a], f))

(* Every declared field is present in the block of each class that v       *)
(* names, v being the value of a field of the declared type.               *)
Populated(reg, h, type, v) ==
    IF type.k = "ConfigList"
    THEN IsList(h, v) /\ \A i \in 1..Len(h[v.a].vs) : Populated(reg, h, type.sub[1], h[v.a].vs[i])
    ELSE IF type.k = "ConfigCollection"
    THEN IsDict(h, v) /\ \A i \in 1..Len(h[v.a].vs) : Populated(reg, h, type.sub[1], h[v.a].vs[i])
    ELSE /\ type.k = "class"
         /\ get_class(reg, h, type, v).e = ""
         /\ LET c == get_class(reg, h, type, v).cls
                b == DictGet(h[v.a], c)
                configurables == ClassOf(reg, c).CONFIGURABLES
            IN /\ IsDict(h, b)
               /\ SeqSet(OdKeys(ClassOf(reg, c).PARAMS)) \subseteq KeySet(h[b.a])
               /\ \A f \in KeySet(h[b.a]) :
                     (OdHas(configurables, f) /\ DictGet(h[b.a], f) # VNone)
                         => Populated(reg, h, OdGet(configurables, f), DictGet(h[b.a], f))

(* C3: after default population of a block that supplies every field       *)
(* without a default, every declared field is present in the block, and in *)
(* the block of every sub-component reachable from it: nested directly, in *)
(* a list, in a collection, or given as a null or empty block.             *)
DefaultsComplete ==
    (kpc = "populated" /\ ktype.k = "class" /\ Supplied(registry, heap0, ktype, kdoc))
        => Populated(registry, heap, ktype, kdoc)

(* The classes a class derives from, and the candidates of a base: the     *)
(* base and every class that derives from it, at any distance.             *)
RECURSIVE Ancestors(_, _)
Ancestors(reg, c) ==
    SeqSet(ClassOf(reg, c).bases) \cup UNION {Ancestors(reg, b) : b \in SeqSet(ClassOf(reg, c).bases)}
Candidates(reg, base) ==
    {base} \cup {n \in SeqSet(ClassNames(reg)) : base \in Ancestors(reg, n)}
(* The keys of the document that name a candidate of the base, as a set    *)
(* and in the order of the document.                                       *)
Matches == KeySet(heap0[kdoc.a]) \cap Candidates(registry, unwrap(ktype).name)
MatchingKeys ==
    SelectSeq(heap0[kdoc.a].ks, LAMBDA k : k \in Candidates(registry, unwrap(ktype).name))
Resolving == kpc \in {"resolved", "unresolved"} /\ IsDict(heap0, kdoc) /\ unwrap(ktype).k = "class"

(* C4: get_class returns a class exactly when exactly one key of the block *)
(* names the base or a class derived from it at any distance, and then it  *)
(* returns the class of that name; when no key names one, it fails with    *)
(* the no-match error.                                                     *)
ResolveExactlyOne ==
    Resolving
        => /\ (kerr = "" <=> Cardinality(Matches) = 1)
           /\ (kerr = "" => kclass \in Matches)
           /\ (Matches = {} => kerr = NoMatchError)
ResolveGrandchildWitness ==
    /\ kpc = "resolved"
    /\ ktype = Class("Augmenter")
    /\ kclass = "GatedNoiseAugmenter"
    /\ Cardinality(KeySet(heap0[kdoc.a])) = 3

(* C5: when more than one key of the block names a candidate of the base,  *)
(* get_class fails with the ambiguous-configuration error, which names     *)
(* every matching class.                                                   *)
AmbiguousNamesAllMatches ==
    (Resolving /\ Cardinality(Matches) > 1)
        => kerr = AmbiguousError(unwrap(ktype).name, MatchingKeys)

(* The object is an instance of a class that the block names, and holds    *)
(* each simple value that the block gives for that class.                  *)
BuiltFrom(h0, h, block, obj) ==
    /\ IsConfigurable(h, obj)
    /\ IsDict(h0, block)
    /\ DictHas(h0[block.a], h[obj.a].cls)
    /\ LET body == DictGet(h0[block.a], h[obj.a].cls)
       IN IsDict(h0, body)
              => \A f \in KeySet(h0[body.a]) :
                     DictGet(h0[body.a], f).t # "ref" => HasValue(h, obj, f, DictGet(h0[body.a], f))

RECURSIVE Shaped(_, _, _), ShapePreserved(_, _, _, _, _)
(* The value is a sequence for a list type and a mapping for a collection  *)
(* type, at every level of the type.                                       *)
Shaped(h, type, v) ==
    IF type.k = "ConfigList"
    THEN IsList(h, v) /\ \A i \in 1..Len(h[v.a].vs) : Shaped(h, type.sub[1], h[v.a].vs[i])
    ELSE IF type.k = "ConfigCollection"
    THEN IsDict(h, v) /\ \A i \in 1..Len(h[v.a].vs) : Shaped(h, type.sub[1], h[v.a].vs[i])
    ELSE TRUE

ShapePreserved(h0, h, type, v, out) ==
    IF type.k = "ConfigList"
    THEN /\ IsList(h, out)
         /\ Len(h[out.a].vs) = Len(h0[v.a].vs)
         /\ \A i \in 1..Len(h0[v.a].vs) :
               ShapePreserved(h0, h, type.sub[1], h0[v.a].vs[i], h[out.a].vs[i])
    ELSE IF type.k = "ConfigCollection"
    THEN /\ IsDict(h, out)
         /\ KeySet(h[out.a]) = KeySet(h0[v.a])
         /\ Len(h[out.a].ks) = Len(h0[v.a].ks)
         /\ \A k \in KeySet(h0[v.a]) :
               ShapePreserved(h0, h, type.sub[1], DictGet(h0[v.a], k), DictGet(h[out.a], k))
    ELSE BuiltFrom(h0, h, v, out)

(* C6: construct of a list type and a sequence of n blocks returns a       *)
(* sequence of n objects, the i-th built from the i-th block; construct of *)
(* a collection type and a mapping returns a mapping of the same keys,     *)
(* each to the object built from the block of that key; and so on for      *)
(* lists and collections nested in each other.                             *)
ConstructKeepsShape ==
    (kpc = "constructed" /\ kerr = "" /\ ktype.k \in {"ConfigList", "ConfigCollection"}
        /\ Shaped(heap0, ktype, kdoc))
        => ShapePreserved(heap0, heap, ktype, kdoc, kobj)
ConstructThreeWitness ==
    /\ kpc = "constructed"
    /\ kerr = ""
    /\ ktype = ConfigList(Class("Augmenter"))
    /\ Len(heap[kobj.a].vs) = 3
    /\ heap[heap[kobj.a].vs[1].a].cls = "NoiseAugmenter"
    /\ heap[heap[kobj.a].vs[2].a].cls = "DCOffsetAugmenter"
    /\ heap[heap[kobj.a].vs[3].a].cls = "GatedNoiseAugmenter"

----------------------------------------------------------------------------
(* Properties of the macro evaluator, on the macro scenario.               *)

(* The string leaves of the content of a value that hold a ${name} marker. *)
MarkedLeaves(c) == {p \in DOMAIN c : c[p].t = "str" /\ HasMarker(c[p].s)}

(* C11: after the macro evaluation of a tree completes without error, no   *)
(* string leaf anywhere in the tree contains a ${name} marker, whether it  *)
(* sits in a mapping, in a sequence or in a sequence nested in a sequence. *)
NoMarkerRemains ==
    cpc[1] = "loaded" => MarkedLeaves(ContentOf(heap, config_obj[1])) = {}

(* The names of the constants a source tree carries.                       *)
ConstantNames(c) == {p[2] : p \in {q \in DOMAIN c : Len(q) = 2 /\ q[1] = CONSTANTS_KEY}}
(* The string leaves whose first marker names neither a constant nor a     *)
(* macro function, and the ${inherit} strings no strict ancestor serves.   *)
UnknownMarkers(c) ==
    {p \in MarkedLeaves(c) : FirstMarker(c[p].s) \notin ConstantNames(c) \cup {"inherit", "datetime"}}
OrphanInherits(c) == {s \in InheritSites(c) : Definers(c, s.m, s.k) = {}}
LookupErrors == {"KeyError: no appropriate function", "KeyError: no inheritable attribute"}

(* C12: macro evaluation fails with a lookup error when a marker names     *)
(* neither a constant nor a macro function, and when an ${inherit} at key  *)
(* k has no strict ancestor mapping defining k.                            *)
MacroLookupFails ==
    (cpc[1] \in {"loaded", "failed"}
       /\ \/ UnknownMarkers(ContentOf(heap0, config_file[1])) # {}
          \/ OrphanInherits(ContentOf(heap0, config_file[1])) # {})
    => cerr[1] \in LookupErrors

(* C13: for every source document that carries the reserved top-level      *)
(* Constants key, whatever the table contains, the resolved document does  *)
(* not contain that key.                                                   *)
ConstantsKeyStripped ==
    (cpc[1] = "loaded" /\ DictHas(heap0[config_file[1].a], CONSTANTS_KEY))
    => ~DictHas(heap[config_obj[1].a], CONSTANTS_KEY)

----------------------------------------------------------------------------
(* The custom-parameter scenario: one document is loaded by                *)
(* Config(config_file, custom_params) from a source tree, with or without  *)
(* a constants table {c: 7} or {inherit: 7}, and a dict of custom          *)
(* parameters that the caller passes.                                      *)

CustomKeys == <<"A", "x">>
CustomLeaves == {VInt(1), Macro("inherit"), Macro("c")}
CustomTables == {<<"c">>, <<"inherit">>}
CustomParams ==
    {(<<>> :> DictLabel),
     (<<>> :> DictLabel) @@ (<<"x">> :> VInt(2)),
     (<<>> :> DictLabel) @@ (<<"x">> :> Macro("c")),
     (<<>> :> DictLabel) @@ (<<CONSTANTS_KEY>> :> DictLabel) @@ (<<CONSTANTS_KEY, "c">> :> VInt(8)),
     (<<>> :> DictLabel) @@ (<<CONSTANTS_KEY>> :> DictLabel) @@ (<<CONSTANTS_KEY, "c">> :> VInt(8))
         @@ (<<"x">> :> Macro("c"))}

InitCustom ==
    /\ hashOrder \in HashOrders
    /\ \E t \in DictTreesUpTo(MaxCustomNodes, CustomKeys, CustomLeaves, MaxMacroListLen),
          constants \in BOOLEAN, names \in CustomTables, params \in CustomParams :
         LET d == Append(<<>>, Obj("dict", <<>>, <<>>))
             r == AllocTree(d, t, <<>>, AllKeys)
             k == Append(r.h, Obj("dict", names, [i \in 1..Len(names) |-> VInt(7)]))
             h == IF constants THEN SetItem(k, r.v.a, CONSTANTS_KEY, VRef(Len(k))) ELSE r.h
             c == AllocTree(h, params, <<>>, AllKeys)
         IN /\ (~constants => names = <<"c">>)
            /\ heap = c.h
            /\ config_file = (1 :> r.v) @@ (2 :> VNone)
            /\ custom_params = (1 :> c.v) @@ (2 :> VNone)
    /\ heap0 = heap
    /\ config_obj = [i \in Loaders |-> VNone]
    /\ cpc = (1 :> "new") @@ (2 :> "off")
    /\ cerr = [i \in Loaders |-> ""]
    /\ json = [i \in Loaders |-> ""]
    /\ hashid = [i \in Loaders |-> ""]
    /\ eframes = [i \in Loaders |-> <<>>]
    /\ NoMerge
    /\ NoConfigurable

SpecCustom == InitCustom /\ [][NextMacro]_vars

(* The constants table macros are resolved with: the table of the source,  *)
(* with the Constants entry of the custom parameters merged over it.       *)
TableOf(c) == [n \in ConstantNames(c) |-> c[<<CONSTANTS_KEY, n>>]]
EffectiveTable == TableOf(ContentOf(heap0, custom_params[1])) @@ TableOf(ContentOf(heap0, config_file[1]))

(* The leaves of the source that are a marker naming a constant, in a key  *)
(* the custom parameters leave alone.                                      *)
ConstantSites ==
    {p \in MarkedLeaves(ContentOf(heap0, config_file[1])) :
        /\ p[1] # CONSTANTS_KEY
        /\ <<p[1]>> \notin DOMAIN ContentOf(heap0, custom_params[1])
        /\ FirstMarker(ContentOf(heap0, config_file[1])[p].s) \in DOMAIN EffectiveTable}

(* C14: a marker ${n} whose name is a key of the constants table resolves  *)
(* to the constant's value wherever in the tree it occurs, in preference   *)
(* to a macro function named n and to an inheritable ancestor value; a     *)
(* Constants entry for n in the custom parameters is the value used.       *)
ConstantTakesPrecedence ==
    cpc[1] = "loaded" =>
        \A p \in ConstantSites :
            ContentOf(heap, config_obj[1])[p]
                = EffectiveTable[FirstMarker(ContentOf(heap0, config_file[1])[p].s)]

(* Loading with the steps in the order the claim gives: constants          *)
(* extraction, merge of the custom parameters, macro evaluation, merge of  *)
(* the custom parameters again, macro evaluation again.                    *)
LoadMergingFirst(h, source, params) ==
    With(Config_load(h, source), LAMBDA new :
    With(Config_vars(new.h, new.v.a, source), LAMBDA stored :
    IF stored.e # "" THEN Res(stored.h, new.v, stored.e)
    ELSE With(Config_constants(stored.h, new.v.a, params), LAMBDA c :
    IF c.e # "" THEN Res(c.h, new.v, c.e)
    ELSE With(Config_override(c.h, new.v.a, params), LAMBDA before :
    IF before.e # "" THEN Res(before.h, new.v, before.e)
    ELSE With(evaluate_vars(before.h, c.h[new.v.a].aux.a, new.v.a, {}), LAMBDA first :
    IF first.e # "" THEN Res(first.h, new.v, first.e)
    ELSE With(Config_override(first.h, new.v.a, params), LAMBDA after :
    IF after.e # "" THEN Res(after.h, new.v, after.e)
    ELSE With(evaluate_vars(after.h, c.h[new.v.a].aux.a, new.v.a, {}), LAMBDA second :
         Res(second.h, new.v, second.e))))))))

(* C20: document loading applies constants extraction, the merge of the    *)
(* custom overrides over the loaded document, macro evaluation, the merge  *)
(* of the overrides again and macro evaluation again, in this order: the   *)
(* load ends as these steps end, with the same error or the same document. *)
OverridesMergedBeforeAndAfter ==
    cpc[1] \in {"loaded", "failed"} =>
        LET claimed == LoadMergingFirst(heap0, config_file[1], custom_params[1].a)
        IN /\ cerr[1] = claimed.e
           /\ cerr[1] = "" => ContentOf(heap, config_obj[1]) = ContentOf(claimed.h, claimed.v)

(* The mappings that hold the upward-link entry.                           *)
Linked(h) == {a \in 1..Len(h) : h[a].kind \in {"dict", "Config"} /\ DictHas(h[a], "PARENT")}

(* C19: no upward link escapes a macro-evaluation call: when the call has  *)
(* ended, by returning or by raising, no mapping of the tree, in a         *)
(* sequence or shared with the source, contains the upward-link entry.     *)
NoUpwardLinkEscapes ==
    cpc[1] \in {"loaded", "failed"} => Linked(heap) = {}

----------------------------------------------------------------------------
(* Properties of the merge engine, on the merge scenario.                  *)

(* The content below path p of a content, and the keys of its root.        *)
Below(c, p) ==
    [q \in {SubSeq(r, Len(p) + 1, Len(r)) :
                r \in {x \in DOMAIN c : Len(x) >= Len(p) /\ SubSeq(x, 1, Len(p)) = p}}
        |-> c[p \o q]]
RootKeys(c) == {p[1] : p \in {q \in DOMAIN c : Len(q) = 1}}
NonNegative == {IdxKey(i) : i \in 0..(Len(IntKeys) - 2)}

(* C18: when a key holds a sequence in base, a mapping override whose keys *)
(* are all non-negative integers is applied as a sparse patch (the length  *)
(* and every position it does not name stay as in base); a sequence, and   *)
(* any other override, including a mapping with a negative or non-integer  *)
(* key, replaces the sequence wholesale.                                   *)
SequenceOverride ==
    (pc = "merged" /\ err = "") =>
        LET base == ContentOf(heap0, dict1)
            over == ContentOf(heap0, override)
            out == ContentOf(heap, merged)
        IN \A k \in RootKeys(base) \cap RootKeys(over) :
              base[<<k>>].t = "list" =>
                 IF over[<<k>>].t = "dict" /\ RootKeys(Below(over, <<k>>)) \subseteq NonNegative
                 THEN /\ out[<<k>>].t = "list"
                      /\ RootKeys(Below(out, <<k>>)) = RootKeys(Below(base, <<k>>))
                      /\ \A i \in RootKeys(Below(base, <<k>>)) \ RootKeys(Below(over, <<k>>)) :
                            Below(out, <<k, i>>) = Below(base, <<k, i>>)
                 ELSE Below(out, <<k>>) = Below(over, <<k>>)
----------------------------------------------------------------------------
(* The instance scenario: the classes are defined, an instance is made     *)
(* from the caller's configuration, by calling the class or through        *)
(* ConfigurableFactory.construct, and then the caller assigns one of its   *)
(* fields, or changes the configuration it passed, or changes the          *)
(* configuration the cfg accessor returns.                                 *)

InstanceStatements == ClassStatements \o <<Amplifier, BoostAmplifier, Rack, Stage, Relay>>
InstanceProgram == DefineClasses(<<>>, <<Obj("dict", <<>>, <<>>)>>, InstanceStatements, 1)

AmplifierBodies ==
    {Leaf(VNone), Empty, MappingOf(<<"double_gain">>, <<Leaf(VInt(4))>>),
     MappingOf(<<"gain">>, <<Leaf(VInt(3))>>),
     MappingOf(<<"double_gain", "gain">>, <<Leaf(VInt(4)), Leaf(VInt(3))>>)}
InstanceInputs ==
    {Input(Class("Amplifier"), Block("Amplifier", b)) : b \in AmplifierBodies}
    \cup {Input(Class("BoostAmplifier"), Block("BoostAmplifier", b)) : b \in AmplifierBodies}
    \cup {Input(Class("NoiseAugmenter"), Block("NoiseAugmenter", b)) : b \in NoiseBodies}
    \cup {Input(Class("Rack"), Block("Rack", b)) :
             b \in {Leaf(VNone), Empty, MappingOf(<<"augmenter">>, <<Leaf(VNone)>>),
                    MappingOf(<<"grid">>, <<MappingOf(<<"b">>, <<Leaf(VInt(2))>>)>>)}}
    \cup {Input(Class("Relay"), Block("Relay", b)) :
             b \in {Leaf(VNone), Empty, MappingOf(<<"next">>, <<Leaf(VNone)>>),
                    MappingOf(<<"next">>,
                              <<Block("Relay", MappingOf(<<"next">>, <<Leaf(VNone)>>))>>)}}
    \cup {Input(Class("Mixer"), Block("Mixer", (<<>> :> DictLabel) @@ b)) :
             b \in BodiesOf(<<"rate", "augmenter">>,
                            <<{Leaf(VInt(5))},
                              {Leaf(VNone),
                               Block("NoiseAugmenter",
                                     MappingOf(<<"noise_min">>, <<Leaf(VInt(0 - 5))>>))}>>, 1)}
(* The values the caller assigns: a raw value, None and a raw block.       *)
WrittenTrees ==
    {Leaf(VInt(9)), Leaf(VNone),
     Block("NoiseAugmenter", MappingOf(<<"noise_max">>, <<Leaf(VInt(7))>>))}

InitInstance ==
    /\ hashOrder \in HashOrders
    /\ \E in \in InstanceInputs :
         LET r == AllocTree(InstanceProgram.h, in.tree, <<>>, AllKeys)
         IN /\ heap = r.h
            /\ registry = InstanceProgram.reg
            /\ ktype = in.type
            /\ kdoc = r.v
    /\ heap0 = heap
    /\ kpc = "start"
    /\ kclass = ""
    /\ kobj = VNone
    /\ kwrite = NoWrite
    /\ kerr = ""
    /\ NoMerge
    /\ NoConfig

(* obj = Class(cfg)                                                        *)
Instantiate ==
    /\ kpc = "start"
    /\ ktype.k = "class"
    /\ LET r == Configurable_init(registry, heap, ktype.name, kdoc)
       IN /\ heap' = r.h
          /\ kobj' = r.v
          /\ kerr' = r.e
    /\ kpc' = "constructed"
    /\ UNCHANGED <<heap0, hashOrder, mergeVars, configVars, registry, ktype, kdoc, kclass, kwrite>>

Made == kpc = "constructed" /\ kerr = "" /\ IsConfigurable(heap, kobj)
FieldsOf(h, v) == SeqSet(OdKeys(ClassOf(registry, h[v.a].cls).PARAMS))

(* obj._name = value                                                       *)
SetField ==
    /\ Made
    /\ \E name \in FieldsOf(heap, kobj), tree \in WrittenTrees :
         LET value == AllocTree(heap, tree, <<>>, AllKeys)
             r == setattr(registry, InstanceStatements, value.h, kobj.a, name, value.v)
         IN /\ heap0' = value.h
            /\ heap' = r.h
            /\ kerr' = r.e
            /\ kwrite' = [name |-> name, value |-> value.v]
    /\ kpc' = "written"
    /\ UNCHANGED <<hashOrder, mergeVars, configVars, registry, ktype, kdoc, kclass, kobj>>

(* The caller's statement on a mapping it holds: into its block of the     *)
(* instance's class when that is a mapping, or into the mapping itself.    *)
Change(h, cfg, cls, inner) ==
    IF inner /\ DictHas(h[cfg.a], cls) /\ IsDict(h, DictGet(h[cfg.a], cls))
    THEN SetItem(h, DictGet(h[cfg.a], cls).a, "x", VInt(9))
    ELSE SetItem(h, cfg.a, "x", VInt(9))

(* cfg[name]['x'] = 9, or cfg['x'] = 9, on the configuration passed.       *)
ChangeCallerBlock ==
    /\ Made
    /\ \E inner \in BOOLEAN : heap' = Change(heap, kdoc, heap[kobj.a].cls, inner)
    /\ heap0' = heap
    /\ kpc' = "caller_changed"
    /\ UNCHANGED <<hashOrder, mergeVars, configVars, registry, ktype, kdoc, kclass, kobj, kwrite, kerr>>

(* c = obj.cfg, then c[name]['x'] = 9, or c['x'] = 9.                      *)
ChangeReturnedCfg ==
    /\ Made
    /\ \E inner \in BOOLEAN :
         LET c == cfg_property(heap, kobj.a)
         IN heap' = Change(c.h, c.v, heap[kobj.a].cls, inner)
    /\ heap0' = heap
    /\ kpc' = "cfg_changed"
    /\ UNCHANGED <<hashOrder, mergeVars, configVars, registry, ktype, kdoc, kclass, kobj, kwrite, kerr>>

NextInstance == Instantiate \/ Construct \/ SetField \/ ChangeCallerBlock \/ ChangeReturnedCfg
SpecInstance == InitInstance /\ [][NextInstance]_vars

----------------------------------------------------------------------------
(* Properties of the instance scenario.                                    *)

(* A field is declared as an alias when the class statement of the class   *)
(* or of one of its ancestors declares it with AliasParam.                 *)
RECURSIVE DeclaredAlias(_, _)
DeclaredAlias(cls, name) ==
    LET stmt == InstanceStatements[CHOOSE i \in 1..Len(InstanceStatements) :
                                      InstanceStatements[i].name = cls]
    IN \/ \E i \in 1..Len(stmt.attrs) :
             lstrip(stmt.attrs[i]) = name /\ stmt.attrs[i].descriptor = "AliasParam"
       \/ \E b \in 1..Len(stmt.bases) : DeclaredAlias(stmt.bases[b], name)
(* The block the instance stores for its class.                            *)
StoredBlock(h) == OwnBlock(h, kobj.a)
WrittenAlias == kpc = "written" /\ DeclaredAlias(heap[kobj.a].cls, kwrite.name)

(* C15: an assignment to a field declared as an alias raises the           *)
(* immutability error, whatever the instance and the value, and leaves the *)
(* instance's field values and its stored block as they were.              *)
AliasWriteRaisesImmutability ==
    WrittenAlias =>
        /\ kerr \in {NotSettable, CannotBeSet}
        /\ heap[kobj.a] = heap0[kobj.a]
        /\ ContentOf(heap, StoredBlock(heap)) = ContentOf(heap0, StoredBlock(heap0))

(* The configuration the instance stores, self._cfg.                       *)
StoredCfg(h) == h[kobj.a].aux
(* Every item of content c is an item of content d.                        *)
Within(c, d) == \A p \in DOMAIN c : p \in DOMAIN d /\ d[p] = c[p]

(* C16: a constructed instance stores a copy of the configuration it was   *)
(* constructed from: what it stores holds the content supplied,            *)
(* construction leaves the caller's configuration as it was, and a later   *)
(* change to the caller's configuration, or to the value the cfg accessor  *)
(* returned, leaves what the instance stores as it was.                    *)
StoredBlockIsIndependentCopy ==
    /\ Made => /\ IsDict(heap0, DictGet(heap0[kdoc.a], heap[kobj.a].cls))
                     => Within(ContentOf(heap0, kdoc), ContentOf(heap, StoredCfg(heap)))
               /\ ContentOf(heap, kdoc) = ContentOf(heap0, kdoc)
    /\ kpc \in {"caller_changed", "cfg_changed"}
          => ContentOf(heap, StoredCfg(heap)) = ContentOf(heap0, StoredCfg(heap0))

(* The type a field of the instance is configured with, when it is one of  *)
(* __CONFIGURABLES__.                                                      *)
Configured(name) == OdHas(ClassOf(registry, heap[kobj.a].cls).CONFIGURABLES, name)
ConfiguredType(name) == OdGet(ClassOf(registry, heap[kobj.a].cls).CONFIGURABLES, name)
(* A write the library documents: to a field that is not an alias, of a    *)
(* raw block when the field is a sub-component and of a raw value or block *)
(* when it is a plain field.                                               *)
WrittenField ==
    /\ kpc = "written"
    /\ ~DeclaredAlias(heap[kobj.a].cls, kwrite.name)
    /\ Configured(kwrite.name)
          => ConfiguredType(kwrite.name).k = "class" /\ IsDict(heap0, kwrite.value)

(* C17: a write to a non-alias field of a constructed instance succeeds;   *)
(* afterwards the field reads as the value written, or for a sub-component *)
(* written with a raw block as the object constructed from the block, and  *)
(* the instance's stored block holds the value written at the field.       *)
FieldWriteUpdatesInstance ==
    WrittenField =>
        /\ kerr = ""
        /\ IF Configured(kwrite.name)
           THEN /\ IsConfigurable(heap, Param_get(heap, kobj, kwrite.name))
                /\ DictHas(heap[kwrite.value.a], heap[Param_get(heap, kobj, kwrite.name).a].cls)
           ELSE Param_get(heap, kobj, kwrite.name) = kwrite.value
        /\ DictHas(heap[StoredBlock(heap).a], kwrite.name)
        /\ DictGet(heap[StoredBlock(heap).a], kwrite.name) = kwrite.value

----------------------------------------------------------------------------
(* Further properties of the construction scenario.                        *)

(* C21: verification of a block that both lacks a declared field and holds *)
(* an undeclared key performs the missing-field check and the              *)
(* extraneous-field check; it does not stop after the first violation.     *)
BothChecksRun ==
    (kpc = "verified" /\ IsDict(heap, BlockOf(heap))
        /\ Declared \ BlockKeys # {} /\ BlockKeys \ Declared # {})
        => SeqSet(verify_config_checks(heap, BlockOf(heap),
                                       OdKeys(ClassOf(registry, kclass).PARAMS)))
              = {"missing", "extraneous"}

----------------------------------------------------------------------------
(* The schema scenario: the class statements of a family are executed one  *)
(* by one, each through ConfigurableMeta.__new__.  The family is a         *)
(* diamond: A, B(A), C(A) and D(B, C).  A declares the fields x and y;     *)
(* every class may declare x, as a simple field with a default, as a       *)
(* simple field without one, or as a sub-component.                        *)

SchemaNames == <<"Configurable", "A", "B", "C", "D">>
SchemaBases == <<<<>>, <<"Configurable">>, <<"A">>, <<"A">>, <<"B", "C">>>>
(* The ways class number n may declare x: its defaults and docs are its    *)
(* own.                                                                    *)
Declarations(n) ==
    {<<Documented(Param("_", "x", PyType("int"), Leaf(VInt(n))), SchemaNames[n])>>,
     <<Documented(Param("_", "x", PyType("int"), Leaf(NO_DEFAULT)), SchemaNames[n])>>,
     <<Documented(Param("_", "x", Class("A"), Leaf(VNone)), SchemaNames[n])>>}
SchemaStatements(n) ==
    IF n = 1 THEN {ClassStatement("Configurable", <<>>, <<>>)}
    ELSE IF n = 2
    THEN {ClassStatement("A", SchemaBases[n],
                         d \o <<Documented(Param("_", "y", PyType("int"), Leaf(VInt(0))), "A")>>) :
             d \in Declarations(n)}
    ELSE {ClassStatement(SchemaNames[n], SchemaBases[n], d) : d \in Declarations(n) \cup {<<>>}}

InitSchema ==
    /\ hashOrder \in HashOrders
    /\ heap = <<Obj("dict", <<>>, <<>>)>>
    /\ heap0 = heap
    /\ registry = <<>>
    /\ kpc = "defining"
    /\ ktype = PyType("")
    /\ kdoc = VNone
    /\ kclass = ""
    /\ kobj = VNone
    /\ kwrite = NoWrite
    /\ kerr = ""
    /\ NoMerge
    /\ NoConfig

(* class Name(bases): ...                                                  *)
DefineClass ==
    /\ kpc = "defining"
    /\ Len(registry) < Len(SchemaNames)
    /\ \E stmt \in SchemaStatements(Len(registry) + 1) :
         LET r == ConfigurableMeta_new(registry, heap, stmt)
         IN /\ heap' = r.h
            /\ registry' = r.reg
            /\ kclass' = stmt.name
    /\ UNCHANGED <<heap0, hashOrder, mergeVars, configVars, kpc, ktype, kdoc, kobj, kwrite, kerr>>

NextSchema == DefineClass
SpecSchema == InitSchema /\ [][NextSchema]_vars

(* The schema entry of a field in a class: its doc, its default and its    *)
(* sub-component type, where it has them.                                  *)
Entry(doc, default, type) == [doc |-> doc, default |-> default, type |-> type]
NoType == PyType("")
SchemaEntry(h, cl, f) ==
    Entry(OdGet(cl.PARAMS, f),
          IF DictHas(h[cl.PARAM_DEFAULTS], f)
          THEN ContentOf(h, DictGet(h[cl.PARAM_DEFAULTS], f)) ELSE Leaf(NO_DEFAULT),
          IF OdHas(cl.CONFIGURABLES, f) THEN OdGet(cl.CONFIGURABLES, f) ELSE NoType)
(* The entry a declaration alone determines.                               *)
DeclaredEntry(attr) ==
    Entry(attr.doc, attr.default,
          IF attr.type.k \in {"class", "ConfigList", "ConfigCollection"} THEN attr.type ELSE NoType)
Declares(cl, f) == \E i \in 1..Len(cl.attrs) : lstrip(cl.attrs[i]) = f
DeclarationOf(cl, f) == cl.attrs[CHOOSE i \in 1..Len(cl.attrs) : lstrip(cl.attrs[i]) = f]
Defined(c) == \E i \in 1..Len(registry) : registry[i].name = c

(* C22: in every class, a field the class declares has the schema entry    *)
(* (doc, default, sub-component type) of that declaration alone, whatever  *)
(* its ancestors declare, and every field of a base is a field of the      *)
(* class.                                                                  *)
SubclassDeclarationOverrides ==
    \A i \in 1..Len(registry) :
        /\ \A f \in {"x", "y"} :
              Declares(registry[i], f)
                 => /\ OdHas(registry[i].PARAMS, f)
                    /\ SchemaEntry(heap, registry[i], f) = DeclaredEntry(DeclarationOf(registry[i], f))
        /\ \A b \in 1..Len(registry[i].bases) :
              SeqSet(OdKeys(ClassOf(registry, registry[i].bases[b]).PARAMS))
                 \subseteq SeqSet(OdKeys(registry[i].PARAMS))

(* C23: in the diamond D(B, C), a field D does not declare has in D the    *)
(* entry of the closest ancestor that declares it: B's when B declares it, *)
(* else C's when C declares it, else A's.                                  *)
DiamondClosestAncestor ==
    (Defined("D") /\ ~Declares(ClassOf(registry, "D"), "x"))
        => SchemaEntry(heap, ClassOf(registry, "D"), "x")
              = SchemaEntry(heap,
                            IF Declares(ClassOf(registry, "B"), "x") THEN ClassOf(registry, "B")
                            ELSE IF Declares(ClassOf(registry, "C"), "x")
                            THEN ClassOf(registry, "C")
                            ELSE ClassOf(registry, "A"), "x")

----------------------------------------------------------------------------
(* Further properties of the macro evaluator.                              *)

(* C26: macro evaluation terminates on every finite tree: no load is left  *)
(* in a loop of _evaluate_macro that never ends, whatever value an         *)
(* ${inherit} takes from its ancestor and in whatever order the keys are   *)
(* visited.                                                                *)
MacroEvaluationTerminates == \A i \in Loaders : cerr[i] # "hang"

(* The fields a class declares as aliases, and the others.                 *)
AliasFields(cls) ==
    {f \in SeqSet(OdKeys(ClassOf(registry, cls).PARAMS)) : DeclaredAlias(cls, f)}
PlainFields(cls) == SeqSet(OdKeys(ClassOf(registry, cls).PARAMS)) \ AliasFields(cls)
(* An instance was asked for, of a class with an alias, from a block that  *)
(* holds exactly the fields that are not aliases.                          *)
FromPlainFields ==
    /\ kpc = "constructed"
    /\ AliasFields(ktype.name) # {}
    /\ IsDict(heap0, DictGet(heap0[kdoc.a], ktype.name))
    /\ KeySet(heap0[DictGet(heap0[kdoc.a], ktype.name).a]) = PlainFields(ktype.name)

(* C30: a class that declares an alias is constructible from a block that  *)
(* holds exactly its other declared fields: the alias is not reported      *)
(* missing, and read on the instance it is the transform of the current    *)
(* values of its source fields.                                            *)
AliasNotRequired ==
    FromPlainFields =>
        /\ kerr = ""
        /\ IsConfigurable(heap, kobj)
        /\ getattr(InstanceStatements, heap, kobj, "double_gain")
              = VInt(2 * Param_get(heap, kobj, "gain").a)

(* C27: default population and construction end by themselves for every    *)
(* schema and block, also when a sub-component defaults to a block naming  *)
(* a class of the family of the class that declares it: no call recurses   *)
(* without end.                                                            *)
PopulationAndConstructionEnd == kpc = "constructed" => kerr # "RecursionError"

(* C29: the declared defaults of every class stay as they were when the    *)
(* class was defined, nested mappings and sub-component blocks included,   *)
(* whatever is populated, constructed, written or changed afterwards.      *)
DeclaredDefaultsUnchanged ==
    \A i \in 1..Len(registry) :
        ContentOf(heap, VRef(registry[i].PARAM_DEFAULTS))
            = ContentOf(InstanceProgram.h, VRef(registry[i].PARAM_DEFAULTS))

----------------------------------------------------------------------------
(* The shared-source scenario: two documents are loaded from one source    *)
(* mapping by two threads.  Config.__init__ runs statement by statement    *)
(* and each call of _evaluate_vars advances by one pass of its loop, so    *)
(* the evaluations of the two loads interleave.                            *)

(* A call of _evaluate_vars(parent): the keys it iterates and its place.   *)
Frame(h, parent) == [parent |-> parent, keys |-> h[parent].ks, i |-> 1]
Step(h, frames, e) == [h |-> h, frames |-> frames, e |-> e]
Parents(frames) == {frames[j].parent : j \in 1..Len(frames)}

(* One pass of the loop of the innermost call of _evaluate_vars, or its    *)
(* return when the keys are exhausted.  A sequence is gone through within  *)
(* the pass.                                                               *)
evaluate_vars_step(h, vrs, frames) ==
    LET f == frames[Len(frames)]
        rest == SubSeq(frames, 1, Len(frames) - 1)
        parent == f.parent
        next == Append(rest, [f EXCEPT !.i = @ + 1])
    IN IF f.i > Len(f.keys)
       THEN Step(IF DictHas(h[parent], "PARENT")
                 THEN [h EXCEPT ![parent] = DictDel(@, "PARENT")] ELSE h, rest, "")
       ELSE IF f.keys[f.i] = "PARENT" THEN Step(h, next, "")
       ELSE IF ~DictHas(h[parent], f.keys[f.i]) THEN Step(h, <<>>, "KeyError: " \o f.keys[f.i])
       ELSE LET child_key == f.keys[f.i]
                child_var == DictGet(h[parent], child_key)
            IN IF IsDict(h, child_var)
               THEN With(SetItem(h, child_var.a, "PARENT", VRef(parent)), LAMBDA h1 :
                         IF child_var.a \in Parents(frames)
                         THEN Step(h1, <<>>, "RecursionError")
                         ELSE Step(h1, Append(next, Frame(h1, child_var.a)), ""))
               ELSE IF IsList(h, child_var)
               THEN With(evaluate_vars_list(h, vrs, parent, Parents(rest), child_key,
                                            child_var.a, 1), LAMBDA r :
                         Step(r.h, IF r.e = "" THEN next ELSE <<>>, r.e))
               ELSE IF child_var.t = "str"
               THEN With(evaluate_macro(h, vrs, parent, child_key, child_var), LAMBDA m :
                         IF m.e # "" THEN Step(h, <<>>, m.e)
                         ELSE Step(SetItem(h, parent, child_key, m.v), next, ""))
               ELSE Step(h, next, "")

(* Config.__init__, lines 58-84: the document is loaded, its constants are *)
(* stored and the first evaluation is entered.                             *)
ConfigStart(i) ==
    /\ cpc[i] = "new"
    /\ LET new == Config_load(heap, config_file[i])
           stored == Config_vars(new.h, new.v.a, config_file[i])
           c == Config_constants(stored.h, new.v.a, custom_params[i].a)
           e == IF stored.e # "" THEN stored.e ELSE c.e
       IN /\ heap' = IF stored.e # "" THEN stored.h ELSE c.h
          /\ config_obj' = [config_obj EXCEPT ![i] = new.v]
          /\ cerr' = [cerr EXCEPT ![i] = e]
          /\ cpc' = [cpc EXCEPT ![i] = IF e = "" THEN "evaluating" ELSE "failed"]
          /\ eframes' = [eframes EXCEPT ![i] = IF e = "" THEN <<Frame(heap', new.v.a)>> ELSE <<>>]
    /\ UNCHANGED <<heap0, hashOrder, mergeVars, config_file, custom_params, json, hashid,
                   configurableVars>>

(* A pass of the loop of _evaluate_vars in one of the two evaluations.     *)
EvaluateStep(i) ==
    /\ cpc[i] \in {"evaluating", "evaluating_again"}
    /\ eframes[i] # <<>>
    /\ LET r == evaluate_vars_step(heap, heap[config_obj[i].a].aux.a, eframes[i])
       IN /\ heap' = r.h
          /\ eframes' = [eframes EXCEPT ![i] = r.frames]
          /\ cerr' = [cerr EXCEPT ![i] = r.e]
          /\ cpc' = [cpc EXCEPT ![i] = IF r.e = "" THEN @ ELSE "failed"]
    /\ UNCHANGED <<heap0, hashOrder, mergeVars, config_file, custom_params, config_obj, json,
                   hashid, configurableVars>>

(* Config.__init__, lines 87-91: the custom parameters are merged in and   *)
(* the second evaluation is entered.                                       *)
ConfigOverride(i) ==
    /\ cpc[i] = "evaluating"
    /\ eframes[i] = <<>>
    /\ LET o == Config_override(heap, config_obj[i].a, custom_params[i].a)
       IN /\ heap' = o.h
          /\ cerr' = [cerr EXCEPT ![i] = o.e]
          /\ cpc' = [cpc EXCEPT ![i] = IF o.e = "" THEN "evaluating_again" ELSE "failed"]
          /\ eframes' = [eframes EXCEPT ![i] =
                            IF o.e = "" THEN <<Frame(heap', config_obj[i].a)>> ELSE <<>>]
    /\ UNCHANGED <<heap0, hashOrder, mergeVars, config_file, custom_params, config_obj, json,
                   hashid, configurableVars>>

(* Config.__init__ returns.                                                *)
ConfigReturn(i) ==
    /\ cpc[i] = "evaluating_again"
    /\ eframes[i] = <<>>
    /\ cpc' = [cpc EXCEPT ![i] = "loaded"]
    /\ UNCHANGED <<heap, heap0, hashOrder, mergeVars, config_file, custom_params, config_obj,
                   cerr, json, hashid, eframes, configurableVars>>

SharedKeys == <<"A", "x">>
SharedLeaves == {VInt(1), Macro("inherit"), Macro("datetime")}
InitShared ==
    /\ hashOrder \in HashOrders
    /\ \E t \in DictTreesUpTo(MaxSharedNodes, SharedKeys, SharedLeaves, 0) :
         LET d == Append(<<>>, Obj("dict", <<>>, <<>>))
             r == AllocTree(d, t, <<>>, AllKeys)
         IN /\ heap = r.h
            /\ config_file = [i \in Loaders |-> r.v]
            /\ custom_params = [i \in Loaders |-> VRef(DEFAULT_CUSTOM_PARAMS)]
    /\ heap0 = heap
    /\ config_obj = [i \in Loaders |-> VNone]
    /\ cpc = [i \in Loaders |-> "new"]
    /\ cerr = [i \in Loaders |-> ""]
    /\ json = [i \in Loaders |-> ""]
    /\ hashid = [i \in Loaders |-> ""]
    /\ eframes = [i \in Loaders |-> <<>>]
    /\ NoMerge
    /\ NoConfigurable

NextShared ==
    \E i \in Loaders : ConfigStart(i) \/ EvaluateStep(i) \/ ConfigOverride(i) \/ ConfigReturn(i)
SpecShared == InitShared /\ [][NextShared]_vars

(* The load of a source when nothing else runs.                            *)
Alone(i) == Config_init(heap0, config_file[i], custom_params[i].a)
Finished(i) == cpc[i] \in {"loaded", "failed"}

(* C28: two documents loaded from one source mapping are independent: the  *)
(* source is left as it was at every depth, and in every interleaving of   *)
(* the two evaluations each load ends as it does when it runs alone, with  *)
(* the same document or the same error.                                    *)
LoadsAreIndependent ==
    (\A i \in Loaders : Finished(i))
        => \A i \in Loaders :
              /\ ContentOf(heap, config_file[i]) = ContentOf(heap0, config_file[i])
              /\ cerr[i] = Alone(i).e
              /\ cerr[i] = "" => ContentOf(heap, config_obj[i]) = ContentOf(Alone(i).h, Alone(i).v)

----------------------------------------------------------------------------
(* The constructor scenario: Configurable.__init__ of the outermost        *)
(* instance runs statement by statement, one pass of its loop over         *)
(* __PARAMS__ at a time.  A sub-component is constructed within a pass.    *)

(* One pass of the loop over self.__PARAMS__ (lines 76-88).                *)
construct_param(reg, h, cls, self, param_name) ==
    LET block == h[OwnBlock(h, self).a]
        configurables == ClassOf(reg, cls).CONFIGURABLES
    IN IF ~DictHas(block, param_name)
       THEN Res(h, VNone, "ValueError: config is missing a parameter")
       ELSE IF OdHas(configurables, param_name) /\ DictGet(block, param_name) # VNone
       THEN With(construct(reg, h, OdGet(configurables, param_name),
                           DictGet(block, param_name)), LAMBDA r :
                 IF r.e # "" THEN r
                 ELSE Res(SetItem(r.h, self, param_name, r.v), VRef(self), ""))
       ELSE Res(SetItem(h, self, param_name, DictGet(block, param_name)), VRef(self), "")

BuildDocs ==
    {Block("Mixer", (<<>> :> DictLabel) @@ b) :
        b \in BodiesOf(<<"rate", "augmenter", "chain", "bank">>,
                       <<{Leaf(VInt(5))},
                         {Leaf(VNone), Block("NoiseAugmenter", Leaf(VNone)),
                          Block("NoiseAugmenter", MappingOf(<<"noise_min">>, <<Leaf(VInt(0 - 5))>>))},
                         ListsOf(1, ElementDocs),
                         CollectionsOf(<<"a">>, ElementDocs)>>, 1)}
BuildInputs ==
    {in \in InstanceInputs : in.type.name \in {"Rack", "Relay", "NoiseAugmenter"}}
    \cup {Input(Class("Batcher"), d) : d \in BatcherDocs}
    \cup {Input(Class("Mixer"), d) : d \in BuildDocs}

InitBuild ==
    /\ hashOrder \in HashOrders
    /\ \E in \in BuildInputs :
         LET r == AllocTree(InstanceProgram.h, in.tree, <<>>, AllKeys)
         IN /\ heap = r.h
            /\ registry = InstanceProgram.reg
            /\ ktype = in.type
            /\ kdoc = r.v
    /\ heap0 = heap
    /\ kpc = "start"
    /\ kclass = ""
    /\ kobj = VNone
    /\ kwrite = NoWrite
    /\ kerr = ""
    /\ NoMerge
    /\ NoConfig

(* Configurable.__init__, lines 58-75: the configuration is saved, the     *)
(* defaults are populated, the block is verified and _config_instances is  *)
(* an empty dict.                                                          *)
EnterInit ==
    /\ kpc = "start"
    /\ LET cls == ktype.name
           self == Len(heap) + 1
       IN IF ~DictHas(heap[kdoc.a], cls)
          THEN /\ kerr' = "KeyError: " \o cls
               /\ kpc' = "constructed"
               /\ UNCHANGED <<heap, kobj>>
          ELSE LET h1 == Configurable_cfg(heap, cls, kdoc)
                   p == populate_defaults_recurse(registry, h1, cls, OwnBlock(h1, self),
                                                  ClassOf(registry, cls).PARAM_DEFAULTS, {})
                   raised == IF p.e # "" THEN p.e
                             ELSE verify_config(p.h, OwnBlock(p.h, self),
                                                OdKeys(ClassOf(registry, cls).PARAMS))
               IN /\ heap' = p.h
                  /\ kerr' = raised
                  /\ kobj' = IF raised = "" THEN VRef(self) ELSE VNone
                  /\ kpc' = IF raised = "" THEN "constructing" ELSE "constructed"
    /\ UNCHANGED <<heap0, hashOrder, mergeVars, configVars, registry, ktype, kdoc, kclass, kwrite>>

(* The fields of the instance under construction, and the one the next     *)
(* pass of the loop is for: each pass stores one field.                    *)
BuildParams == OdKeys(ClassOf(registry, ktype.name).PARAMS)
NextParam == BuildParams[Len(heap[kobj.a].ks) + 1]

(* A pass of the loop over self.__PARAMS__.                                *)
ConstructField ==
    /\ kpc = "constructing"
    /\ Len(heap[kobj.a].ks) < Len(BuildParams)
    /\ LET r == construct_param(registry, heap, ktype.name, kobj.a, NextParam)
       IN /\ heap' = r.h
          /\ kerr' = r.e
          /\ kobj' = r.v
          /\ kpc' = IF r.e = "" THEN "constructing" ELSE "constructed"
    /\ UNCHANGED <<heap0, hashOrder, mergeVars, configVars, registry, ktype, kdoc, kclass, kwrite>>

(* The loop is over and Configurable.__init__ returns.                     *)
ReturnInit ==
    /\ kpc = "constructing"
    /\ Len(heap[kobj.a].ks) = Len(BuildParams)
    /\ kpc' = "constructed"
    /\ UNCHANGED <<heap, heap0, hashOrder, mergeVars, configVars, registry, ktype, kdoc, kclass,
                   kobj, kerr, kwrite>>

NextBuild == EnterInit \/ ConstructField \/ ReturnInit
SpecBuild == InitBuild /\ [][NextBuild]_vars

(* The fields of a class that are not sub-components.                      *)
SimpleFields(cls) ==
    {f \in SeqSet(OdKeys(ClassOf(registry, cls).PARAMS)) :
        ~OdHas(ClassOf(registry, cls).CONFIGURABLES, f)}
(* The next pass of the loop constructs a sub-component.                   *)
SubComponentStarts ==
    /\ kpc = "constructing"
    /\ Len(heap[kobj.a].ks) < Len(BuildParams)
    /\ OdHas(ClassOf(registry, ktype.name).CONFIGURABLES, NextParam)
    /\ DictGet(heap[OwnBlock(heap, kobj.a).a], NextParam) # VNone
(* v, the value of a field of the declared type, is built: an instance     *)
(* that holds every field of its class, its sub-components built as well.  *)
RECURSIVE Built(_, _, _)
Built(h, type, v) ==
    IF v = VNone THEN TRUE
    ELSE IF type.k \in {"ConfigList", "ConfigCollection"}
    THEN /\ v.t = "ref"
         /\ \A i \in 1..Len(h[v.a].vs) : Built(h, type.sub[1], h[v.a].vs[i])
    ELSE /\ IsConfigurable(h, v)
         /\ LET c == ClassOf(registry, h[v.a].cls)
            IN /\ KeySet(h[v.a]) = SeqSet(OdKeys(c.PARAMS))
               /\ \A f \in KeySet(h[v.a]) :
                     OdHas(c.CONFIGURABLES, f) => Built(h, OdGet(c.CONFIGURABLES, f), DictGet(h[v.a], f))

(* C24: construction is depth-first.  When the construction of a           *)
(* sub-component of an instance starts, the simple fields of the instance  *)
(* are all available on it; and a sub-component the constructor has        *)
(* stored is built, with everything below it.                              *)
ConstructionDepthFirst ==
    /\ SubComponentStarts => SimpleFields(ktype.name) \subseteq KeySet(heap[kobj.a])
    /\ (kpc = "constructing" \/ Made)
          => \A f \in KeySet(heap[kobj.a]) :
                OdHas(ClassOf(registry, ktype.name).CONFIGURABLES, f)
                   => Built(heap, OdGet(ClassOf(registry, ktype.name).CONFIGURABLES, f),
                            DictGet(heap[kobj.a], f))

(* Constructing v, the value of a field of the declared type, makes an     *)
(* instance: v is a block, or a list or collection with a block in it.     *)
RECURSIVE Instantiates(_, _, _)
Instantiates(h, type, v) ==
    IF type.k \in {"ConfigList", "ConfigCollection"}
    THEN v.t = "ref" /\ \E i \in 1..Len(h[v.a].vs) : Instantiates(h, type.sub[1], h[v.a].vs[i])
    ELSE v # VNone
(* No sub-component has been instantiated and the next pass of the loop    *)
(* instantiates one.                                                       *)
FirstInstantiation ==
    /\ SubComponentStarts
    /\ Instantiates(heap, OdGet(ClassOf(registry, ktype.name).CONFIGURABLES, NextParam),
                    DictGet(heap[OwnBlock(heap, kobj.a).a], NextParam))
    /\ \A f \in KeySet(heap[kobj.a]) :
          OdHas(ClassOf(registry, ktype.name).CONFIGURABLES, f) => DictGet(heap[kobj.a], f) = VNone

(* C25: defaults reach the whole tree before construction begins.  When    *)
(* the first sub-component of a top-level construction is about to be      *)
(* instantiated, the block of every non-null sub-component of the tree,    *)
(* direct or a member of a list or a collection, at any depth, holds every *)
(* field of its class (the configuration supplying the fields that have no *)
(* default).                                                               *)
DefaultsBeforeConstruction ==
    (FirstInstantiation /\ Supplied(registry, heap0, ktype, kdoc))
        => Populated(registry, heap, ktype, heap[kobj.a].aux)
====
